---- MODULE Spec2Model ----
(***************************************************************************)
(* Capture session engine of backend/packet_capture/capture_packets.py:    *)
(* PacketCapture.start / stop on the controller and stopper threads, the   *)
(* worker thread _capture_worker with its teardown _cleanup_capture, and   *)
(* the pyshark engine as the environment of the worker.                    *)
(***************************************************************************)
EXTENDS Integers, Sequences, FiniteSets, TLC

\* ---------------------------------------------------------------- bounds
MaxSessions == 2      \* worker threads / handles / event loops an instance can own
MaxFrames == 3        \* frames the source can hand to one worker
MaxCount == 2         \* largest packet_count a config is drawn with
MaxStops == 1         \* stop() calls made by a thread other than the worker

MaxLines == 3         \* lines of tool output given to load_interfaces
MaxRequests == 2      \* /capture/start requests
MaxStopRequests == 1  \* /capture/stop requests
MaxStored == 2        \* packets stored by the API's packet handlers

Workers == 1..MaxSessions
Requests == 1..MaxRequests
StopRequests == 1..MaxStopRequests

\* ---------------------------------------------------------------- values
None == "None"
OpenError == "open failed"
EngineError == "engine error"
LoopStopped == "Event loop stopped before Future completed."
CallbackError == "callback error"

NoStats == [returned |-> FALSE]

VARIABLES
    \* CaptureConfig
    packet_count,
    \* PacketCapture fields
    capture,            \* self.capture: 0 is None, else the handle opened by that worker
    is_capturing,       \* self.is_capturing
    packets_captured,   \* self._packets_captured
    stop_event,         \* self._stop_event
    packets,            \* self._packets
    loop,               \* self._loop: 0 is None, else the loop created by that worker
    error_msg,          \* self._error_msg
    \* asyncio event loops, one per worker
    loop_closed,        \* loop.is_closed()
    loop_stop,          \* loop.stop scheduled by call_soon_threadsafe and not yet run
    \* controller thread, inside start()
    cpc,
    stopped_by_user,
    stopped_by_timeout,
    capture_thread,     \* 0 before the thread is created, else the worker
    stats,              \* the CaptureStats returned by start
    \* worker threads
    wpc,
    wexc,               \* exception travelling to the except clause
    \* engine
    delivered,          \* frames handed to each worker by sniff_continuously
    \* a thread other than the worker that calls stop()
    spc,
    stops,
    \* observations
    cb_log,             \* sequence numbers passed to the packet callback
    wexit,              \* what made each worker leave its loop
    closes,             \* close_async calls made on each handle
    tdRaised,           \* a release in the teardown of that worker raised
    stopAt,             \* invocation during which the callback first called stop()
    raiseAt,            \* invocation during which the callback raised
    extStopped,         \* the other thread's stop() has set the flag during this session
    cbAfterStop,        \* callback invocations begun after that
    toFired,            \* the timeout wait of join expired
    dlvAtTO,            \* frames delivered when the timeout wait expired
    snap,               \* the observations as they were when start returned
    \* the packet handler's parsing: parse_packet and format_packet_dict
    packet,             \* the pyshark packet given to parse_packet
    number,             \* the packet number given to parse_packet
    info,               \* the PacketInfo returned by parse_packet
    packet_dict,        \* the dictionary returned by format_packet_dict
    exported,           \* the JSON document written by json.dump
    loaded,             \* the value read back by json.load
    npc,
    \* load_interfaces
    tool,               \* the completed 'tshark -D' process: returncode and stdout
    interfaces,         \* the list load_interfaces returns
    interface_map,      \* the dict load_interfaces returns
    lpc,
    \* api.py
    capture_state,      \* the global capture_state dictionary
    req,                \* position of each /capture/start request handler
    thr,                \* position of the run_capture thread each request created
    thr_capture,        \* the PacketCapture whose start that thread is executing
    api_captured,       \* _packets_captured of each PacketCapture the API created
    stopreq,            \* position of each /capture/stop request handler
    stop_called         \* the PacketCapture objects whose stop() has been called

cfgVars == <<packet_count>>
objVars == <<capture, is_capturing, packets_captured, stop_event, packets, loop, error_msg>>
loopVars == <<loop_closed, loop_stop>>
ctlVars == <<cpc, stopped_by_user, stopped_by_timeout, capture_thread, stats>>
wrkVars == <<wpc, wexc, delivered>>
stpVars == <<spc, stops>>
obsVars == <<cb_log, wexit, closes, tdRaised, stopAt, raiseAt, extStopped, cbAfterStop, toFired, dlvAtTO, snap>>
nrmVars == <<packet, number, info, packet_dict, exported, loaded, npc>>
capVars == <<cfgVars, objVars, loopVars, ctlVars, wrkVars, stpVars, obsVars>>
ldVars == <<tool, interfaces, interface_map, lpc>>
apiVars == <<capture_state, req, thr, thr_capture, api_captured, stopreq, stop_called>>
vars == <<capVars, nrmVars, ldVars, apiVars>>

NoSnap == [exit |-> "none", calls |-> 0, dlv |-> 0, stopAt |-> 0, raiseAt |-> 0,
           stops |-> 0, alive |-> FALSE]

\* PacketCapture.__init__
CaptureIdle ==
    /\ capture = 0
    /\ is_capturing = FALSE
    /\ packets_captured = 0
    /\ stop_event = FALSE
    /\ packets = <<>>
    /\ loop = 0
    /\ error_msg = None
    /\ loop_closed = [w \in Workers |-> FALSE]
    /\ loop_stop = [w \in Workers |-> FALSE]
    /\ cpc = "idle"
    /\ stopped_by_user = FALSE
    /\ stopped_by_timeout = FALSE
    /\ capture_thread = 0
    /\ stats = NoStats
    /\ wpc = [w \in Workers |-> "none"]
    /\ wexc = [w \in Workers |-> None]
    /\ delivered = [w \in Workers |-> 0]
    /\ spc = "idle"
    /\ stops = 0
    /\ cb_log = <<>>
    /\ wexit = [w \in Workers |-> "none"]
    /\ closes = [w \in Workers |-> 0]
    /\ tdRaised = [w \in Workers |-> FALSE]
    /\ stopAt = 0
    /\ raiseAt = 0
    /\ extStopped = FALSE
    /\ cbAfterStop = 0
    /\ toFired = FALSE
    /\ dlvAtTO = 0
    /\ snap = NoSnap

\* no packet is being parsed
NoPacket == [present |-> FALSE]

NormIdle ==
    /\ packet = NoPacket
    /\ number = 0
    /\ info = NoPacket
    /\ packet_dict = NoPacket
    /\ exported = NoPacket
    /\ loaded = NoPacket
    /\ npc = "idle"

\* load_interfaces has not been called
LoadIdle ==
    /\ tool = [returncode |-> 0, stdout |-> <<>>]
    /\ interfaces = <<>>
    /\ interface_map = <<>>
    /\ lpc = "idle"

\* api.py as imported: capture_state as initialised, no request
ApiIdle ==
    /\ capture_state = [capture |-> 0, packets |-> <<>>, is_capturing |-> FALSE]
    /\ req = [r \in Requests |-> "none"]
    /\ thr = [r \in Requests |-> "none"]
    /\ thr_capture = [r \in Requests |-> 0]
    /\ api_captured = [r \in Requests |-> 0]
    /\ stopreq = [q \in StopRequests |-> "none"]
    /\ stop_called = {}

\* a PacketCapture constructed with a CaptureConfig
Init ==
    /\ packet_count \in 0..MaxCount
    /\ CaptureIdle
    /\ NormIdle
    /\ LoadIdle
    /\ ApiIdle

\* loop.call_soon_threadsafe(loop.stop) on self._loop, guarded as in the callers
LoopStopRequested(l) == [loop_stop EXCEPT ![l] = TRUE]

\* threading.Thread.is_alive()
is_alive(w) == wpc[w] # "done"

\* ------------------------------------------------------------ controller
\* start: reset state for a new capture
Start ==
    /\ cpc = "idle"
    /\ stop_event' = FALSE
    /\ packets' = <<>>
    /\ packets_captured' = 0
    /\ error_msg' = None
    /\ stopped_by_user' = FALSE
    /\ stopped_by_timeout' = FALSE
    /\ cpc' = "mark"
    /\ UNCHANGED <<apiVars, ldVars, nrmVars, cfgVars, capture, is_capturing, loop, loopVars, capture_thread, stats,
                   wrkVars, stpVars, obsVars>>

\* start: self.is_capturing = True  (status_callback is optional and not passed)
StartMark ==
    /\ cpc = "mark"
    /\ is_capturing' = TRUE
    /\ cpc' = "spawn"
    /\ UNCHANGED <<apiVars, ldVars, nrmVars, cfgVars, capture, packets_captured, stop_event, packets, loop, error_msg,
                   loopVars, stopped_by_user, stopped_by_timeout, capture_thread, stats,
                   wrkVars, stpVars, obsVars>>

\* start: create and start the worker thread
Spawn ==
    /\ cpc = "spawn"
    /\ \E w \in Workers :
        /\ wpc[w] = "none"
        /\ \A v \in Workers : v < w => wpc[v] # "none"
        /\ wpc' = [wpc EXCEPT ![w] = "newloop"]
        /\ capture_thread' = w
    /\ cpc' = "join"
    /\ UNCHANGED <<apiVars, ldVars, nrmVars, cfgVars, objVars, loopVars, stopped_by_user, stopped_by_timeout, stats,
                   wexc, delivered, stpVars, obsVars>>

\* start: capture_thread.join(timeout) returns because the worker has finished
JoinReturn ==
    /\ cpc = "join"
    /\ ~is_alive(capture_thread)
    /\ cpc' = "check"
    /\ UNCHANGED <<apiVars, ldVars, nrmVars, cfgVars, objVars, loopVars, stopped_by_user, stopped_by_timeout,
                   capture_thread, stats, wrkVars, stpVars, obsVars>>

\* a join that waits for the worker without a timeout
JoinForever == JoinReturn

\* start: capture_thread.join(timeout) returns because the timeout has passed
JoinTimeout ==
    /\ cpc = "join"
    /\ is_alive(capture_thread)
    /\ cpc' = "check"
    /\ toFired' = TRUE
    /\ dlvAtTO' = delivered[capture_thread]
    /\ UNCHANGED <<apiVars, ldVars, nrmVars, cfgVars, objVars, loopVars, stopped_by_user, stopped_by_timeout,
                   capture_thread, stats, wrkVars, stpVars,
                   cb_log, wexit, closes, tdRaised, stopAt, raiseAt, extStopped, cbAfterStop, snap>>

\* start: if capture_thread.is_alive()
CheckAlive ==
    /\ cpc = "check"
    /\ cpc' = IF is_alive(capture_thread) THEN "timeout" ELSE "classify"
    /\ UNCHANGED <<apiVars, ldVars, nrmVars, cfgVars, objVars, loopVars, stopped_by_user, stopped_by_timeout,
                   capture_thread, stats, wrkVars, stpVars, obsVars>>

\* start: stopped_by_timeout = True; self._stop_event.set()
TimeoutMark ==
    /\ cpc = "timeout"
    /\ stopped_by_timeout' = TRUE
    /\ stop_event' = TRUE
    /\ cpc' = "force"
    /\ UNCHANGED <<apiVars, ldVars, nrmVars, cfgVars, capture, is_capturing, packets_captured, packets, loop, error_msg,
                   loopVars, stopped_by_user, capture_thread, stats, wrkVars, stpVars, obsVars>>

\* start: force-stop the event loop to unblock sniff_continuously()
ForceUnblock ==
    /\ cpc = "force"
    /\ loop_stop' = IF capture # 0 /\ loop # 0 /\ ~loop_closed[loop]
                    THEN LoopStopRequested(loop) ELSE loop_stop
    /\ cpc' = "grace"
    /\ UNCHANGED <<apiVars, ldVars, nrmVars, cfgVars, objVars, loop_closed, stopped_by_user, stopped_by_timeout,
                   capture_thread, stats, wrkVars, stpVars, obsVars>>

\* start: capture_thread.join(timeout=2) returns, the worker finished or not
GraceJoin ==
    /\ cpc = "grace"
    /\ cpc' = "classify"
    /\ UNCHANGED <<apiVars, ldVars, nrmVars, cfgVars, objVars, loopVars, stopped_by_user, stopped_by_timeout,
                   capture_thread, stats, wrkVars, stpVars, obsVars>>

\* classification that forgets the timeout
Classified_anystop(stop_set, by_timeout, by_user) ==
    IF stop_set THEN TRUE ELSE by_user

\* classification tied to the timeout branch
Classified_swapped(stop_set, by_timeout, by_user) ==
    IF stop_set /\ by_timeout THEN TRUE ELSE by_user

\* classification that never reports the user's stop
Classified_never(stop_set, by_timeout, by_user) == by_user

\* start: determine how the capture ended
Classified(stop_set, by_timeout, by_user) ==
    IF stop_set /\ ~by_timeout THEN TRUE ELSE by_user

Classify ==
    /\ cpc = "classify"
    /\ stopped_by_user' = Classified(stop_event, stopped_by_timeout, stopped_by_user)
    /\ cpc' = "finish"
    /\ UNCHANGED <<apiVars, ldVars, nrmVars, cfgVars, objVars, loopVars, stopped_by_timeout, capture_thread, stats,
                   wrkVars, stpVars, obsVars>>

\* stats that never carry the error
CaptureStats_noerror(captured, by_user, by_timeout, error) ==
    [returned |-> TRUE, packets_captured |-> captured, stopped_by_user |-> by_user,
     stopped_by_timeout |-> by_timeout, error |-> None]

\* start: self.is_capturing = False; return CaptureStats(...)
CaptureStats(captured, by_user, by_timeout, error) ==
    [returned |-> TRUE, packets_captured |-> captured, stopped_by_user |-> by_user,
     stopped_by_timeout |-> by_timeout, error |-> error]

Finish ==
    /\ cpc = "finish"
    /\ is_capturing' = FALSE
    /\ stats' = CaptureStats(packets_captured, stopped_by_user, stopped_by_timeout, error_msg)
    /\ snap' = [exit |-> wexit[capture_thread], calls |-> Len(cb_log),
                dlv |-> delivered[capture_thread], stopAt |-> stopAt, raiseAt |-> raiseAt,
                stops |-> stops, alive |-> is_alive(capture_thread)]
    /\ cpc' = "returned"
    /\ UNCHANGED <<apiVars, ldVars, nrmVars, cfgVars, capture, packets_captured, stop_event, packets, loop, error_msg,
                   loopVars, stopped_by_user, stopped_by_timeout, capture_thread,
                   wrkVars, stpVars,
                   cb_log, wexit, closes, tdRaised, stopAt, raiseAt, extStopped, cbAfterStop,
                   toFired, dlvAtTO>>

\* ---------------------------------------------------------------- worker
\* _capture_worker: self._loop = asyncio.new_event_loop()
NewLoop(w) ==
    /\ wpc[w] = "newloop"
    /\ loop' = w
    /\ wpc' = [wpc EXCEPT ![w] = "open"]
    /\ UNCHANGED <<apiVars, ldVars, nrmVars, cfgVars, capture, is_capturing, packets_captured, stop_event, packets,
                   error_msg, loopVars, ctlVars, wexc, delivered, stpVars, obsVars>>

\* _capture_worker: self.capture = pyshark.LiveCapture(...)
OpenOk(w) ==
    /\ wpc[w] = "open"
    /\ capture' = w
    /\ wpc' = [wpc EXCEPT ![w] = "wait"]
    /\ UNCHANGED <<apiVars, ldVars, nrmVars, cfgVars, is_capturing, packets_captured, stop_event, packets, loop,
                   error_msg, loopVars, ctlVars, wexc, delivered, stpVars, obsVars>>

\* _capture_worker: pyshark.LiveCapture(...) raises
OpenFail(w) ==
    /\ wpc[w] = "open"
    /\ wexc' = [wexc EXCEPT ![w] = OpenError]
    /\ wexit' = [wexit EXCEPT ![w] = "open_error"]
    /\ wpc' = [wpc EXCEPT ![w] = "except"]
    /\ UNCHANGED <<apiVars, ldVars, nrmVars, cfgVars, objVars, loopVars, ctlVars, delivered, stpVars,
                   cb_log, closes, tdRaised, stopAt, raiseAt, extStopped, cbAfterStop,
                   toFired, dlvAtTO, snap>>

\* sniff_continuously() yields the next packet
Deliver(w) ==
    /\ wpc[w] = "wait"
    /\ delivered[w] < MaxFrames
    /\ delivered' = [delivered EXCEPT ![w] = @ + 1]
    /\ wpc' = [wpc EXCEPT ![w] = "precheck"]
    /\ UNCHANGED <<apiVars, ldVars, nrmVars, cfgVars, objVars, loopVars, ctlVars, wexc, stpVars, obsVars>>

\* sniff_continuously() ends: the source is exhausted
Exhaust(w) ==
    /\ wpc[w] = "wait"
    /\ wexit' = [wexit EXCEPT ![w] = "exhausted"]
    /\ wpc' = [wpc EXCEPT ![w] = "cleanup"]
    /\ UNCHANGED <<apiVars, ldVars, nrmVars, cfgVars, objVars, loopVars, ctlVars, wexc, delivered, stpVars,
                   cb_log, closes, tdRaised, stopAt, raiseAt, extStopped, cbAfterStop,
                   toFired, dlvAtTO, snap>>

\* sniff_continuously() raises
EngineRaise(w) ==
    /\ wpc[w] = "wait"
    /\ wexc' = [wexc EXCEPT ![w] = EngineError]
    /\ wexit' = [wexit EXCEPT ![w] = "exception"]
    /\ wpc' = [wpc EXCEPT ![w] = "except"]
    /\ UNCHANGED <<apiVars, ldVars, nrmVars, cfgVars, objVars, loopVars, ctlVars, delivered, stpVars,
                   cb_log, closes, tdRaised, stopAt, raiseAt, extStopped, cbAfterStop,
                   toFired, dlvAtTO, snap>>

\* sniff_continuously() raises because the worker's event loop was stopped
Unblocked(w) ==
    /\ wpc[w] = "wait"
    /\ loop_stop[w]
    /\ loop_stop' = [loop_stop EXCEPT ![w] = FALSE]
    /\ wexc' = [wexc EXCEPT ![w] = LoopStopped]
    /\ wexit' = [wexit EXCEPT ![w] = "unblocked"]
    /\ wpc' = [wpc EXCEPT ![w] = "except"]
    /\ UNCHANGED <<apiVars, ldVars, nrmVars, cfgVars, objVars, loop_closed, ctlVars, delivered, stpVars,
                   cb_log, closes, tdRaised, stopAt, raiseAt, extStopped, cbAfterStop,
                   toFired, dlvAtTO, snap>>

\* a worker that does not test the flag before counting
PreCheck_ignore(w) ==
    /\ wpc[w] = "precheck"
    /\ wexit' = wexit
    /\ wpc' = [wpc EXCEPT ![w] = "count"]
    /\ UNCHANGED <<apiVars, ldVars, nrmVars, cfgVars, objVars, loopVars, ctlVars, wexc, delivered, stpVars,
                   cb_log, closes, tdRaised, stopAt, raiseAt, extStopped, cbAfterStop,
                   toFired, dlvAtTO, snap>>

\* _capture_worker: if self._stop_event.is_set(): break  (before the callback)
PreCheck(w) ==
    /\ wpc[w] = "precheck"
    /\ IF stop_event
       THEN /\ wexit' = [wexit EXCEPT ![w] = "stop_pre"]
            /\ wpc' = [wpc EXCEPT ![w] = "cleanup"]
       ELSE /\ wexit' = wexit
            /\ wpc' = [wpc EXCEPT ![w] = "count"]
    /\ UNCHANGED <<apiVars, ldVars, nrmVars, cfgVars, objVars, loopVars, ctlVars, wexc, delivered, stpVars,
                   cb_log, closes, tdRaised, stopAt, raiseAt, extStopped, cbAfterStop,
                   toFired, dlvAtTO, snap>>

\* a counter that is not advanced
Counted_stuck(n) == n

\* _capture_worker: self._packets_captured += 1; self._packets.append(packet)
Counted(n) == n + 1

Count(w) ==
    /\ wpc[w] = "count"
    /\ packets_captured' = Counted(packets_captured)
    /\ packets' = Append(packets, <<w, delivered[w]>>)
    /\ wpc' = [wpc EXCEPT ![w] = "call"]
    /\ UNCHANGED <<apiVars, ldVars, nrmVars, cfgVars, capture, is_capturing, stop_event, loop, error_msg,
                   loopVars, ctlVars, wexc, delivered, stpVars, obsVars>>

\* _capture_worker: self._packet_callback(packet, self._packets_captured) is entered
\* (start is given a callback, so self._packet_callback is set)
CbBegin(w) ==
    /\ wpc[w] = "call"
    /\ cb_log' = Append(cb_log, packets_captured)
    /\ cbAfterStop' = IF extStopped THEN cbAfterStop + 1 ELSE cbAfterStop
    /\ wpc' = [wpc EXCEPT ![w] = "in_cb"]
    /\ UNCHANGED <<apiVars, ldVars, nrmVars, cfgVars, objVars, loopVars, ctlVars, wexc, delivered, stpVars,
                   wexit, closes, tdRaised, stopAt, raiseAt, extStopped, toFired, dlvAtTO, snap>>

\* the part of the state that stop() writes
StopState == [stop_event |-> stop_event, is_capturing |-> is_capturing,
              loop_stop |-> loop_stop]

\* a stop() that flips is_capturing
stop_toggle(s) ==
    [stop_event |-> TRUE, is_capturing |-> ~s.is_capturing,
     loop_stop |-> IF loop # 0 /\ ~loop_closed[loop]
                   THEN [s.loop_stop EXCEPT ![loop] = TRUE] ELSE s.loop_stop]

\* PacketCapture.stop as one call: set the flag, is_capturing = False, stop the loop
stop(s) ==
    [stop_event |-> TRUE, is_capturing |-> FALSE,
     loop_stop |-> IF loop # 0 /\ ~loop_closed[loop]
                   THEN [s.loop_stop EXCEPT ![loop] = TRUE] ELSE s.loop_stop]

\* the callback calls stop() on the capture
CbStop(w) ==
    /\ wpc[w] = "in_cb"
    /\ stopAt = 0
    /\ stop_event' = stop(StopState).stop_event
    /\ is_capturing' = stop(StopState).is_capturing
    /\ loop_stop' = stop(StopState).loop_stop
    /\ stopAt' = Len(cb_log)
    /\ UNCHANGED <<apiVars, ldVars, nrmVars, cfgVars, capture, packets_captured, packets, loop, error_msg,
                   loop_closed, ctlVars, wrkVars, stpVars,
                   cb_log, wexit, closes, tdRaised, raiseAt, extStopped, cbAfterStop,
                   toFired, dlvAtTO, snap>>

\* the callback returns
CbReturn(w) ==
    /\ wpc[w] = "in_cb"
    /\ wpc' = [wpc EXCEPT ![w] = "postcheck"]
    /\ UNCHANGED <<apiVars, ldVars, nrmVars, cfgVars, objVars, loopVars, ctlVars, wexc, delivered, stpVars, obsVars>>

\* a callback error that is recorded without leaving the loop
CbRaise_nobreak(w) ==
    /\ wpc[w] = "in_cb"
    /\ error_msg' = CallbackError
    /\ raiseAt' = Len(cb_log)
    /\ wpc' = [wpc EXCEPT ![w] = "postcheck"]
    /\ UNCHANGED <<apiVars, ldVars, nrmVars, cfgVars, capture, is_capturing, packets_captured, stop_event, packets,
                   loop, loopVars, ctlVars, wexc, delivered, stpVars,
                   cb_log, wexit, closes, tdRaised, stopAt, extStopped, cbAfterStop, toFired, dlvAtTO, snap>>

\* the callback raises: self._error_msg = str(e); break
CbRaise(w) ==
    /\ wpc[w] = "in_cb"
    /\ error_msg' = CallbackError
    /\ raiseAt' = Len(cb_log)
    /\ wexit' = [wexit EXCEPT ![w] = "cb_error"]
    /\ wpc' = [wpc EXCEPT ![w] = "cleanup"]
    /\ UNCHANGED <<apiVars, ldVars, nrmVars, cfgVars, capture, is_capturing, packets_captured, stop_event, packets,
                   loop, loopVars, ctlVars, wexc, delivered, stpVars,
                   cb_log, closes, tdRaised, stopAt, extStopped, cbAfterStop, toFired, dlvAtTO, snap>>

\* _capture_worker: if self._stop_event.is_set(): break  (after the callback)
PostCheck(w) ==
    /\ wpc[w] = "postcheck"
    /\ IF stop_event
       THEN /\ wexit' = [wexit EXCEPT ![w] = "stop_post"]
            /\ wpc' = [wpc EXCEPT ![w] = "cleanup"]
       ELSE /\ wexit' = wexit
            /\ wpc' = [wpc EXCEPT ![w] = "limit"]
    /\ UNCHANGED <<apiVars, ldVars, nrmVars, cfgVars, objVars, loopVars, ctlVars, wexc, delivered, stpVars,
                   cb_log, closes, tdRaised, stopAt, raiseAt, extStopped, cbAfterStop,
                   toFired, dlvAtTO, snap>>

\* limit test that stops one packet late
LimitReached_late(count, captured) == count > 0 /\ captured > count

\* limit test that treats packet_count = 0 as a limit
LimitReached_zero(count, captured) == captured >= count

\* _capture_worker: packet limit reached
LimitReached(count, captured) == count > 0 /\ captured >= count

Limit(w) ==
    /\ wpc[w] = "limit"
    /\ IF LimitReached(packet_count, packets_captured)
       THEN /\ wexit' = [wexit EXCEPT ![w] = "count"]
            /\ wpc' = [wpc EXCEPT ![w] = "cleanup"]
       ELSE /\ wexit' = wexit
            /\ wpc' = [wpc EXCEPT ![w] = "wait"]
    /\ UNCHANGED <<apiVars, ldVars, nrmVars, cfgVars, objVars, loopVars, ctlVars, wexc, delivered, stpVars,
                   cb_log, closes, tdRaised, stopAt, raiseAt, extStopped, cbAfterStop,
                   toFired, dlvAtTO, snap>>

\* an except clause that records whatever the stop flag says
Recorded_always(stop_set, old, msg) == msg

\* an except clause that drops the message
Recorded_dropped(stop_set, old, msg) == old

\* _capture_worker: except Exception as e: if not self._stop_event.is_set(): ...
Recorded(stop_set, old, msg) == IF ~stop_set THEN msg ELSE old

Except(w) ==
    /\ wpc[w] = "except"
    /\ error_msg' = Recorded(stop_event, error_msg, wexc[w])
    /\ wpc' = [wpc EXCEPT ![w] = "cleanup"]
    /\ UNCHANGED <<apiVars, ldVars, nrmVars, cfgVars, capture, is_capturing, packets_captured, stop_event, packets,
                   loop, loopVars, ctlVars, wexc, delivered, stpVars, obsVars>>

\* the message of an exception raised by a release during teardown
TeardownError == "teardown error"

\* an except clause of the teardown that keeps the message
Discarded_kept(old, msg) == msg

\* _cleanup_capture: except: pass
Discarded(old, msg) == old

\* a teardown that leaves the handle open
CleanupCapture_noclose(w) ==
    /\ wpc[w] = "cleanup"
    /\ capture' = 0
    /\ wpc' = [wpc EXCEPT ![w] = "cleanup_loop"]
    /\ UNCHANGED <<apiVars, ldVars, nrmVars, cfgVars, is_capturing, packets_captured, stop_event, packets, loop,
                   error_msg, loopVars, ctlVars, wexc, delivered, stpVars, obsVars>>

\* _cleanup_capture: close the capture (the close may raise), self.capture = None
CleanupCapture(w) ==
    /\ wpc[w] = "cleanup"
    /\ \E raised \in BOOLEAN :
        IF capture # 0 /\ loop # 0 /\ ~loop_closed[loop]
        THEN /\ closes' = [closes EXCEPT ![capture] = @ + 1]
             /\ tdRaised' = [tdRaised EXCEPT ![w] = @ \/ raised]
             /\ error_msg' = IF raised THEN Discarded(error_msg, TeardownError)
                              ELSE error_msg
        ELSE /\ ~raised
             /\ UNCHANGED <<closes, tdRaised, error_msg>>
    /\ capture' = 0
    /\ wpc' = [wpc EXCEPT ![w] = "cleanup_loop"]
    /\ UNCHANGED <<apiVars, ldVars, nrmVars, cfgVars, is_capturing, packets_captured, stop_event, packets, loop,
                   loopVars, ctlVars, wexc, delivered, stpVars,
                   cb_log, wexit, stopAt, raiseAt, extStopped, cbAfterStop,
                   toFired, dlvAtTO, snap>>

\* _cleanup_capture: cancel pending tasks (may raise), self._loop.close() (may
\* raise); the thread ends
CleanupLoop(w) ==
    /\ wpc[w] = "cleanup_loop"
    /\ \E raised \in {"no", "tasks", "close"} :
        IF loop # 0 /\ ~loop_closed[loop]
        THEN /\ loop_closed' = IF raised = "close" THEN loop_closed
                               ELSE [loop_closed EXCEPT ![loop] = TRUE]
             /\ tdRaised' = [tdRaised EXCEPT ![w] = @ \/ (raised # "no")]
             /\ error_msg' = IF raised # "no" THEN Discarded(error_msg, TeardownError)
                              ELSE error_msg
        ELSE /\ raised = "no"
             /\ UNCHANGED <<loop_closed, tdRaised, error_msg>>
    /\ wpc' = [wpc EXCEPT ![w] = "done"]
    /\ UNCHANGED <<apiVars, ldVars, nrmVars, cfgVars, capture, is_capturing, packets_captured, stop_event,
                   packets, loop, loop_stop, ctlVars, wexc, delivered, stpVars,
                   cb_log, wexit, closes, stopAt, raiseAt, extStopped, cbAfterStop,
                   toFired, dlvAtTO, snap>>

\* --------------------------------------------- stop() from another thread
\* a stop() that does not set the flag
StopSet_noflag ==
    /\ spc = "idle"
    /\ stops < MaxStops
    /\ stops' = stops + 1
    /\ extStopped' = (extStopped \/ cpc \notin {"idle", "returned"})
    /\ spc' = "flag"
    /\ UNCHANGED <<apiVars, ldVars, nrmVars, cfgVars, objVars, loopVars, ctlVars, wrkVars,
                   cb_log, wexit, closes, tdRaised, stopAt, raiseAt, cbAfterStop,
                   toFired, dlvAtTO, snap>>

\* stop: self._stop_event.set()
StopSet ==
    /\ spc = "idle"
    /\ stops < MaxStops
    /\ stop_event' = TRUE
    /\ stops' = stops + 1
    /\ extStopped' = (extStopped \/ cpc \notin {"idle", "returned"})
    /\ spc' = "flag"
    /\ UNCHANGED <<apiVars, ldVars, nrmVars, cfgVars, capture, is_capturing, packets_captured, packets, loop,
                   error_msg, loopVars, ctlVars, wrkVars,
                   cb_log, wexit, closes, tdRaised, stopAt, raiseAt, cbAfterStop,
                   toFired, dlvAtTO, snap>>

\* stop: self.is_capturing = False
StopFlag ==
    /\ spc = "flag"
    /\ is_capturing' = FALSE
    /\ spc' = "unblock"
    /\ UNCHANGED <<apiVars, ldVars, nrmVars, cfgVars, capture, packets_captured, stop_event, packets, loop,
                   error_msg, loopVars, ctlVars, wrkVars, stops, obsVars>>

\* stop: force-stop the event loop
StopUnblock ==
    /\ spc = "unblock"
    /\ loop_stop' = IF loop # 0 /\ ~loop_closed[loop]
                    THEN LoopStopRequested(loop) ELSE loop_stop
    /\ spc' = "idle"
    /\ UNCHANGED <<apiVars, ldVars, nrmVars, cfgVars, objVars, loop_closed, ctlVars, wrkVars, stops, obsVars>>

\* ---------------------------------------------------------- specification
Controller ==
    \/ Start \/ StartMark \/ Spawn \/ JoinReturn \/ JoinTimeout \/ CheckAlive
    \/ TimeoutMark \/ ForceUnblock \/ GraceJoin \/ Classify \/ Finish

Worker(w) ==
    \/ NewLoop(w) \/ OpenOk(w) \/ OpenFail(w)
    \/ Deliver(w) \/ Exhaust(w) \/ EngineRaise(w) \/ Unblocked(w)
    \/ PreCheck(w) \/ Count(w) \/ CbBegin(w) \/ CbStop(w) \/ CbReturn(w) \/ CbRaise(w)
    \/ PostCheck(w) \/ Limit(w) \/ Except(w) \/ CleanupCapture(w) \/ CleanupLoop(w)

Stopper == StopSet \/ StopFlag \/ StopUnblock

Next ==
    \/ Controller
    \/ \E w \in Workers : Worker(w)
    \/ Stopper

Spec == Init /\ [][Next]_vars

\* the calling thread always gets to run: every wait in start is bounded
LiveSpec == Spec /\ WF_vars(Controller)

\* the steps of the worker thread that need nothing from the network: everything
\* but the arrival of a frame, the end of the source and an engine failure
WorkerStep(w) ==
    \/ NewLoop(w) \/ OpenOk(w) \/ OpenFail(w) \/ Unblocked(w)
    \/ PreCheck(w) \/ Count(w) \/ CbBegin(w) \/ CbReturn(w)
    \/ PostCheck(w) \/ Limit(w) \/ Except(w) \/ CleanupCapture(w) \/ CleanupLoop(w)

\* every thread is scheduled: start and stop() run to their end, the worker runs
\* whenever it is not waiting for the network, and the callback returns
FairSpec ==
    /\ Spec
    /\ WF_vars(Controller)
    /\ WF_vars(Stopper)
    /\ \A w \in Workers : WF_vars(WorkerStep(w))

Returned == cpc = "returned"

\* ------------------------------------------- serialized start calls
\* start called again on the same instance after the previous start returned:
\* the reset at the top of start, whatever became of the previous worker
StartAgain ==
    /\ cpc = "returned"
    /\ \E w \in Workers : wpc[w] = "none"
    /\ stop_event' = FALSE
    /\ packets' = <<>>
    /\ packets_captured' = 0
    /\ error_msg' = None
    /\ stopped_by_user' = FALSE
    /\ stopped_by_timeout' = FALSE
    /\ stats' = NoStats
    /\ cpc' = "mark"
    /\ cb_log' = <<>>
    /\ stopAt' = 0
    /\ raiseAt' = 0
    /\ extStopped' = FALSE
    /\ cbAfterStop' = 0
    /\ toFired' = FALSE
    /\ dlvAtTO' = 0
    /\ snap' = NoSnap
    /\ UNCHANGED <<apiVars, ldVars, nrmVars, cfgVars, capture, is_capturing, loop, loopVars, capture_thread,
                   wrkVars, stpVars, wexit, closes, tdRaised>>

NextRe ==
    \/ Controller
    \/ StartAgain
    \/ \E w \in Workers : Worker(w)

\* an instance configured to capture one packet per session
InitRe == Init /\ packet_count = 1

\* one instance, start calls one after the other, no other thread
SpecRe == InitRe /\ [][NextRe]_vars

\* ------------------------------------------- start with a status callback
\* start(packet_callback, status_callback): 'status_callback("Capturing packets...")'
\* raises.  The call stands after 'self.is_capturing = True' and before the worker
\* thread is created, inside no try block: the exception leaves start.  A status
\* callback that returns changes nothing in the engine.
StatusRaise ==
    /\ cpc = "spawn"
    /\ cpc' = "raised"
    /\ UNCHANGED <<apiVars, ldVars, nrmVars, cfgVars, objVars, loopVars, stopped_by_user, stopped_by_timeout,
                   capture_thread, stats, wrkVars, stpVars, obsVars>>

NextStatus ==
    \/ Next
    \/ StatusRaise

\* one start on a fresh instance, called with a status callback
SpecStatus == Init /\ [][NextStatus]_vars

TypeOK ==
    /\ packet_count \in 0..MaxCount
    /\ capture \in 0..MaxSessions
    /\ loop \in 0..MaxSessions
    /\ packets_captured \in 0..MaxFrames
    /\ Len(cb_log) <= MaxFrames
    /\ stops \in 0..MaxStops

\* ------------------------------------------------------- packet normalizer
\* display_packet.py: parse_packet and format_packet_dict, as the packet callback
\* of the API applies them to each frame.
\*
\* Text that the code only copies is a string.  Text that the code converts or
\* measures is a sequence of characters: the digits given to int(), the user agent.
\* An Optional value is Null or the one-element tuple of its value; an optional
\* group of the mapping is Null or a record.

MaxUALen == 52        \* longest user-agent value a frame is drawn with

Null == <<>>
Some(v) == <<v>>

\* Python truthiness of an Optional[str] and of an Optional[int]
TruthyStr(o) == o # Null /\ o[1] # ""
TruthyInt(o) == o # Null /\ o[1] # 0

Digits == {"0", "1", "2", "3", "4", "5", "6", "7", "8", "9"}
DigitValue ==
    ("0" :> 0) @@ ("1" :> 1) @@ ("2" :> 2) @@ ("3" :> 3) @@ ("4" :> 4) @@
    ("5" :> 5) @@ ("6" :> 6) @@ ("7" :> 7) @@ ("8" :> 8) @@ ("9" :> 9)

\* int(s) succeeds
IsInt(s) == Len(s) > 0 /\ \A i \in 1..Len(s) : s[i] \in Digits

\* int(s)
RECURSIVE int(_)
int(s) ==
    IF Len(s) = 0 THEN 0
    ELSE 10 * int(SubSeq(s, 1, Len(s) - 1)) + DigitValue[s[Len(s)]]

\* ---- the frames the engine hands over
LayerNames == {"eth", "arp", "ip", "ipv6", "tcp", "udp", "icmp", "icmpv6",
               "http", "dns", "tls"}
LayerOrder == <<"eth", "arp", "ip", "ipv6", "tcp", "udp", "icmp", "icmpv6",
                "http", "dns", "tls">>

\* packet.highest_layer for the last layer of the frame
HighestLayer ==
    ("eth" :> "ETH") @@ ("arp" :> "ARP") @@ ("ip" :> "IP") @@ ("ipv6" :> "IPV6") @@
    ("tcp" :> "TCP") @@ ("udp" :> "UDP") @@ ("icmp" :> "ICMP") @@
    ("icmpv6" :> "ICMPV6") @@ ("http" :> "HTTP") @@ ("dns" :> "DNS") @@
    ("tls" :> "TLS")

\* a user-agent value of n characters; the text depends on the position
UAText(n, shift) ==
    [i \in 1..n |-> <<"M", "o", "z", "i", "l", "a", "/">>[((i + shift) % 7) + 1]]

\* the sub-fields a layer carries when nothing is missing
DefaultLayer(l) ==
    CASE l = "eth" -> [src |-> "aa:aa:aa:aa:aa:aa", dst |-> "bb:bb:bb:bb:bb:bb"]
      [] l = "arp" -> [src_proto_ipv4 |-> "10.0.0.1", src_hw_mac |-> "aa:aa:aa:aa:aa:aa",
                       dst_proto_ipv4 |-> "10.0.0.2", dst_hw_mac |-> "00:00:00:00:00:00",
                       opcode |-> "1"]
      [] l = "ip" -> [src |-> "10.0.0.1", dst |-> "10.0.0.2", ttl |-> <<"6", "4">>]
      [] l = "ipv6" -> [src |-> "fe80::1", dst |-> "fe80::2", hlim |-> <<"2", "5", "5">>]
      [] l = "tcp" -> [srcport |-> <<"4", "9", "1">>, dstport |-> <<"8", "0">>,
                       flags_syn |-> "0", flags_ack |-> "1", flags_fin |-> "0",
                       flags_push |-> "1", flags_reset |-> "0", flags_urg |-> "0"]
      [] l = "udp" -> [srcport |-> <<"5", "3">>, dstport |-> <<"5", "3">>]
      [] l = "icmp" -> [type |-> "8"]
      [] l = "icmpv6" -> [type |-> "128"]
      [] l = "http" -> [request_method |-> "GET", host |-> "example.org",
                        request_uri |-> "/", user_agent |-> UAText(12, 0)]
      [] l = "dns" -> [qry_name |-> "example.org", qry_type |-> "1"]
      [] l = "tls" -> [handshake_type |-> "1"]

\* a pyshark packet: its layers in order and the sub-fields of each layer
Frame(layers, fields) ==
    [present |-> TRUE, sniff_time |-> "2024-01-01 00:00:00", length |-> <<"6", "0">>,
     layers |-> layers, highest_layer |-> HighestLayer[layers[Len(layers)]],
     raw |-> Some("00ff"), fields |-> fields]

\* every combination of present and absent layers
FramesByLayers ==
    { Frame(SelectSeq(LayerOrder, LAMBDA l : l \in S), [l \in S |-> DefaultLayer(l)]) :
        S \in (SUBSET LayerNames) \ {{}} }

\* TCP frames with every combination of absent, clear and set flag sub-fields
FlagAttrs == {"flags_syn", "flags_ack", "flags_fin", "flags_push", "flags_reset",
              "flags_urg"}
FlagSettings == UNION { [P -> {"0", "1"}] : P \in SUBSET FlagAttrs }
SourcePorts == {<<"0">>, <<"4", "4", "3">>}

FramesTcp ==
    { Frame(<<"eth", net, "tcp">>,
            ("eth" :> DefaultLayer("eth")) @@ (net :> DefaultLayer(net)) @@
            ("tcp" :> ([srcport |-> sp, dstport |-> <<"8", "0">>] @@ fl))) :
        net \in {"ip", "ipv6"}, sp \in SourcePorts, fl \in FlagSettings }

\* HTTP frames with a user agent of every length under either attribute name
UASettings ==
    {<<>>}
    \cup { [user_agent |-> UAText(n, 0)] : n \in 0..MaxUALen }
    \cup { [request_user_agent |-> UAText(n, 3)] : n \in 0..MaxUALen }
    \cup { [user_agent |-> UAText(n, 0), request_user_agent |-> UAText(MaxUALen - n, 3)] :
            n \in 0..MaxUALen }

FramesHttp ==
    { Frame(<<"eth", "ip", "tcp", "http">>,
            ("eth" :> DefaultLayer("eth")) @@ ("ip" :> DefaultLayer("ip")) @@
            ("tcp" :> DefaultLayer("tcp")) @@ ("http" :> ([host |-> "example.org"] @@ ua))) :
        ua \in UASettings }

\* ARP frames with every combination of present and absent sub-fields
FramesArp ==
    { Frame(<<"eth", "arp">>,
            ("eth" :> DefaultLayer("eth")) @@
            ("arp" :> ([a \in P |-> DefaultLayer("arp")[a]] @@ op))) :
        P \in SUBSET {"src_proto_ipv4", "src_hw_mac", "dst_proto_ipv4", "dst_hw_mac"},
        op \in {<<>>, [opcode |-> "1"], [opcode |-> "2"], [opcode |-> "3"]} }

\* the sub-fields of a layer that a frame is drawn with or without
Removable(l) ==
    IF l = "tcp" THEN {"srcport", "dstport"} ELSE DOMAIN DefaultLayer(l)

WithoutAttrs(l, gone) ==
    [a \in (DOMAIN DefaultLayer(l)) \ gone |-> DefaultLayer(l)[a]]

\* frames of a few layer stacks with every combination of absent sub-fields
SparseStacks ==
    {<<"eth", "ip", "tcp">>, <<"eth", "ipv6", "udp">>, <<"eth", "ip", "icmp">>,
     <<"ip", "udp", "dns">>, <<"ipv6", "tcp", "tls">>}

FramesSparse ==
    UNION { { Frame(<<st[1], st[2], st[3]>>,
                    (st[1] :> WithoutAttrs(st[1], g1)) @@ (st[2] :> WithoutAttrs(st[2], g2)) @@
                    (st[3] :> WithoutAttrs(st[3], g3))) :
                g1 \in SUBSET Removable(st[1]), g2 \in SUBSET Removable(st[2]),
                g3 \in SUBSET Removable(st[3]) } :
            st \in SparseStacks }

\* a frame of the default layers with one sub-field given another value
FrameWith(layers, l, a, v) ==
    [Frame(layers, [k \in {layers[j] : j \in 1..Len(layers)} |-> DefaultLayer(k)])
        EXCEPT !.fields[l][a] = v]

\* frames whose sub-fields have unusual values: empty text, port 0, text that is
\* no number; a frame without raw bytes; a frame with a length that is no number
FramesOdd ==
    { FrameWith(<<"eth", "ip", "tcp">>, "eth", "src", ""),
      FrameWith(<<"eth", "ip", "tcp">>, "ip", "src", ""),
      FrameWith(<<"eth", "ip", "tcp">>, "ip", "ttl", <<"x">>),
      FrameWith(<<"eth", "ip", "tcp">>, "tcp", "srcport", <<"h", "t", "t", "p">>),
      FrameWith(<<"eth", "ip", "udp">>, "udp", "srcport", <<"0">>),
      FrameWith(<<"eth", "ip", "udp">>, "udp", "dstport", <<"0">>),
      FrameWith(<<"eth", "arp">>, "arp", "src_proto_ipv4", ""),
      FrameWith(<<"eth", "ip", "icmp">>, "icmp", "type", "5"),
      FrameWith(<<"eth", "ip", "udp", "dns">>, "dns", "qry_type", "255"),
      [Frame(<<"eth", "ip", "tcp">>,
             [k \in {"eth", "ip", "tcp"} |-> DefaultLayer(k)]) EXCEPT !.raw = Null],
      [Frame(<<"eth", "ip", "tcp">>,
             [k \in {"eth", "ip", "tcp"} |-> DefaultLayer(k)]) EXCEPT !.length = <<>>] }

Frames == FramesByLayers \cup FramesTcp \cup FramesHttp \cup FramesArp
          \cup FramesSparse \cup FramesOdd

\* ---- parse_packet
\* hasattr(packet, layer) and hasattr(packet.layer, attr)
HasLayer(p, l) == l \in DOMAIN p.fields
HasAttr(p, l, a) == l \in DOMAIN p.fields /\ a \in DOMAIN p.fields[l]

\* the first of the attribute names that the layer has, as the probing loops find it
RECURSIVE FirstAttr(_, _, _)
FirstAttr(p, l, names) ==
    IF names = <<>> THEN Null
    ELSE IF HasAttr(p, l, Head(names)) THEN Some(p.fields[l][Head(names)])
    ELSE FirstAttr(p, l, Tail(names))

\* PacketInfo(number, timestamp, length, layers, protocol) with the dataclass defaults
PacketInfo(p, n) ==
    [raised |-> FALSE, number |-> n, timestamp |-> p.sniff_time, length |-> int(p.length),
     layers |-> p.layers, protocol |-> p.highest_layer,
     src_ip |-> Null, dst_ip |-> Null, is_ipv6 |-> FALSE, ttl |-> Null,
     src_port |-> Null, dst_port |-> Null, tcp_flags |-> <<>>,
     arp_sender_ip |-> Null, arp_sender_mac |-> Null, arp_target_ip |-> Null,
     arp_target_mac |-> Null, arp_type |-> Null,
     src_mac |-> Null, dst_mac |-> Null, raw_hex |-> Null,
     application |-> Null, application_details |-> <<>>]

\* parse_packet: the Ethernet layer
ParseEthernet(p, i) ==
    IF HasLayer(p, "eth")
    THEN [i EXCEPT !.src_mac = Some(p.fields["eth"]["src"]),
                   !.dst_mac = Some(p.fields["eth"]["dst"])]
    ELSE i

\* parse_packet: raw hex, left None when get_raw_packet raises
ParseRaw(p, i) == [i EXCEPT !.raw_hex = p.raw]

\* a dictionary lookup with the f"Type {x}" default
Lookup(table, x) == IF x \in DOMAIN table THEN table[x] ELSE <<"Type ", x>>

\* the flag names whose sub-field is present and '1', in the order of flag_checks
RECURSIVE FlagsSet(_, _)
FlagsSet(p, checks) ==
    IF checks = <<>> THEN <<>>
    ELSE (IF HasAttr(p, "tcp", Head(checks)[1]) /\ p.fields["tcp"][Head(checks)[1]] = "1"
          THEN <<Head(checks)[2]>> ELSE <<>>) \o FlagsSet(p, Tail(checks))

\* _parse_transport_layer: flag_checks
flag_checks ==
    <<<<"flags_syn", "SYN">>, <<"flags_ack", "ACK">>, <<"flags_fin", "FIN">>,
      <<"flags_push", "PSH">>, <<"flags_reset", "RST">>, <<"flags_urg", "URG">>>>

\* _parse_transport_layer
parse_transport_layer(p, i) ==
    IF HasLayer(p, "tcp")
    THEN [i EXCEPT !.protocol = "TCP",
                   !.src_port = Some(int(p.fields["tcp"]["srcport"])),
                   !.dst_port = Some(int(p.fields["tcp"]["dstport"])),
                   !.tcp_flags = FlagsSet(p, flag_checks)]
    ELSE IF HasLayer(p, "udp")
    THEN [i EXCEPT !.protocol = "UDP",
                   !.src_port = Some(int(p.fields["udp"]["srcport"])),
                   !.dst_port = Some(int(p.fields["udp"]["dstport"]))]
    ELSE IF HasLayer(p, "icmp")
    THEN [i EXCEPT !.protocol = "ICMP",
                   !.application_details =
                       IF HasAttr(p, "icmp", "type")
                       THEN ("icmp_type" :>
                               Lookup(("8" :> "Echo Request (Ping)") @@
                                      ("0" :> "Echo Reply (Pong)") @@
                                      ("3" :> "Destination Unreachable") @@
                                      ("11" :> "Time Exceeded"),
                                      p.fields["icmp"]["type"])) @@ @
                       ELSE @]
    ELSE IF HasLayer(p, "icmpv6")
    THEN [i EXCEPT !.protocol = "ICMPv6"]
    ELSE i

\* a truncation that keeps 50 characters before the dots
Truncated_long(ua) ==
    IF Len(ua) > 50 THEN SubSeq(ua, 1, 50) \o <<".", ".", ".">> ELSE ua

\* _parse_application_layer: if len(ua) > 50: ua = ua[:47] + "..."
Truncated(ua) ==
    IF Len(ua) > 50 THEN SubSeq(ua, 1, 47) \o <<".", ".", ".">> ELSE ua

\* details[key] = value when one of the probed attributes is present
WithDetail(details, key, found) ==
    IF found = Null THEN details ELSE (key :> found[1]) @@ details

\* _parse_application_layer: the HTTP details
HttpDetails(p) ==
    LET ua == FirstAttr(p, "http", <<"user_agent", "request_user_agent">>)
        d1 == WithDetail(<<>>, "method", FirstAttr(p, "http", <<"request_method", "method">>))
        d2 == WithDetail(d1, "host", FirstAttr(p, "http", <<"host", "request_host">>))
        d3 == WithDetail(d2, "uri",
                  FirstAttr(p, "http", <<"request_uri", "request_full_uri", "uri",
                                         "request_line">>))
        d4 == WithDetail(d3, "response_code",
                  FirstAttr(p, "http", <<"response_code", "response_status_code",
                                         "status_code">>))
        d5 == WithDetail(d4, "user_agent", IF ua = Null THEN Null ELSE Some(Truncated(ua[1])))
    IN  WithDetail(d5, "content_type",
                  FirstAttr(p, "http", <<"content_type", "response_content_type">>))

\* _parse_application_layer: the DNS details
DnsDetails(p) ==
    LET d1 == WithDetail(<<>>, "query", FirstAttr(p, "dns", <<"qry_name">>))
        d2 == IF HasAttr(p, "dns", "qry_type")
              THEN ("query_type" :>
                      Lookup(("1" :> "A (IPv4)") @@ ("28" :> "AAAA (IPv6)") @@
                             ("5" :> "CNAME") @@ ("15" :> "MX (Mail)") @@ ("16" :> "TXT"),
                             p.fields["dns"]["qry_type"])) @@ d1
              ELSE d1
    IN  WithDetail(d2, "answer", FirstAttr(p, "dns", <<"a">>))

\* _parse_application_layer: the TLS details
TlsDetails(p) ==
    LET d1 == IF HasAttr(p, "tls", "handshake_type")
              THEN ("handshake" :>
                      Lookup(("1" :> "Client Hello") @@ ("2" :> "Server Hello") @@
                             ("11" :> "Certificate") @@ ("16" :> "Client Key Exchange"),
                             p.fields["tls"]["handshake_type"]))
              ELSE <<>>
    IN  WithDetail(d1, "server_name",
                   FirstAttr(p, "tls", <<"handshake_extensions_server_name">>))

\* an application tier that is only entered below a port-carrying transport
parse_application_layer_ported(p, i) ==
    IF ~HasLayer(p, "tcp") /\ ~HasLayer(p, "udp") THEN i
    ELSE IF HasLayer(p, "http")
    THEN [i EXCEPT !.application = Some("HTTP"), !.application_details = HttpDetails(p) @@ @]
    ELSE IF HasLayer(p, "dns")
    THEN [i EXCEPT !.application = Some("DNS"), !.application_details = DnsDetails(p) @@ @]
    ELSE IF HasLayer(p, "tls")
    THEN [i EXCEPT !.application = Some("TLS/SSL"), !.application_details = TlsDetails(p) @@ @]
    ELSE i

\* _parse_application_layer (the details found are added to those of the
\* transport layer)
parse_application_layer(p, i) ==
    IF HasLayer(p, "http")
    THEN [i EXCEPT !.application = Some("HTTP"), !.application_details = HttpDetails(p) @@ @]
    ELSE IF HasLayer(p, "dns")
    THEN [i EXCEPT !.application = Some("DNS"), !.application_details = DnsDetails(p) @@ @]
    ELSE IF HasLayer(p, "tls")
    THEN [i EXCEPT !.application = Some("TLS/SSL"), !.application_details = TlsDetails(p) @@ @]
    ELSE i

\* parse_packet: the ARP branch
ParseArp(p, i) ==
    [i EXCEPT !.protocol = "ARP",
              !.arp_sender_ip = FirstAttr(p, "arp", <<"src_proto_ipv4">>),
              !.arp_sender_mac = FirstAttr(p, "arp", <<"src_hw_mac">>),
              !.arp_target_ip = FirstAttr(p, "arp", <<"dst_proto_ipv4">>),
              !.arp_target_mac = FirstAttr(p, "arp", <<"dst_hw_mac">>),
              !.arp_type = IF HasAttr(p, "arp", "opcode")
                           THEN LET opcode == p.fields["arp"]["opcode"]
                                IN  Some(IF opcode = "1" THEN "Request"
                                         ELSE IF opcode = "2" THEN "Reply" ELSE opcode)
                           ELSE Null]

\* parse_packet: the IPv4 branch
ParseIPv4(p, i) ==
    parse_application_layer(p, parse_transport_layer(p,
        [i EXCEPT !.src_ip = Some(p.fields["ip"]["src"]),
                  !.dst_ip = Some(p.fields["ip"]["dst"]),
                  !.ttl = IF HasAttr(p, "ip", "ttl")
                          THEN Some(int(p.fields["ip"]["ttl"])) ELSE Null]))

\* parse_packet: the IPv6 branch
ParseIPv6(p, i) ==
    parse_application_layer(p, parse_transport_layer(p,
        [i EXCEPT !.src_ip = Some(p.fields["ipv6"]["src"]),
                  !.dst_ip = Some(p.fields["ipv6"]["dst"]),
                  !.is_ipv6 = TRUE,
                  !.ttl = IF HasAttr(p, "ipv6", "hlim")
                          THEN Some(int(p.fields["ipv6"]["hlim"])) ELSE Null]))

\* a dispatch that tries IPv6 before IPv4
Branch_v6first(p) ==
    IF HasLayer(p, "arp") THEN "arp"
    ELSE IF HasLayer(p, "ipv6") THEN "ipv6"
    ELSE IF HasLayer(p, "ip") THEN "ip"
    ELSE "other"

\* a dispatch that tries IPv4 before ARP
Branch_ipfirst(p) ==
    IF HasLayer(p, "ip") THEN "ip"
    ELSE IF HasLayer(p, "arp") THEN "arp"
    ELSE IF HasLayer(p, "ipv6") THEN "ipv6"
    ELSE "other"

\* parse_packet: if hasattr(packet, 'arp') ... elif 'ip' ... elif 'ipv6'
Branch(p) ==
    IF HasLayer(p, "arp") THEN "arp"
    ELSE IF HasLayer(p, "ip") THEN "ip"
    ELSE IF HasLayer(p, "ipv6") THEN "ipv6"
    ELSE "other"

\* an attribute read without hasattr, or an int() of text that is no number, raises
MissingAttr(p, l, names) == \E a \in names : ~HasAttr(p, l, a)
BadInt(p, l, a) == HasAttr(p, l, a) /\ ~IsInt(p.fields[l][a])

TransportRaises(p) ==
    IF HasLayer(p, "tcp")
    THEN MissingAttr(p, "tcp", {"srcport", "dstport"})
         \/ BadInt(p, "tcp", "srcport") \/ BadInt(p, "tcp", "dstport")
    ELSE IF HasLayer(p, "udp")
    THEN MissingAttr(p, "udp", {"srcport", "dstport"})
         \/ BadInt(p, "udp", "srcport") \/ BadInt(p, "udp", "dstport")
    ELSE FALSE

ParseRaises(p) ==
    \/ ~IsInt(p.length)
    \/ HasLayer(p, "eth") /\ MissingAttr(p, "eth", {"src", "dst"})
    \/ Branch(p) = "ip"
        /\ (MissingAttr(p, "ip", {"src", "dst"}) \/ BadInt(p, "ip", "ttl")
            \/ TransportRaises(p))
    \/ Branch(p) = "ipv6"
        /\ (MissingAttr(p, "ipv6", {"src", "dst"}) \/ BadInt(p, "ipv6", "hlim")
            \/ TransportRaises(p))

\* what parse_packet leaves when it raises
Raised == [raised |-> TRUE]

parse_packet(p, n) ==
    IF ParseRaises(p) THEN Raised
    ELSE LET i == ParseRaw(p, ParseEthernet(p, PacketInfo(p, n)))
         IN  CASE Branch(p) = "arp" -> ParseArp(p, i)
               [] Branch(p) = "ip" -> ParseIPv4(p, i)
               [] Branch(p) = "ipv6" -> ParseIPv6(p, i)
               [] OTHER -> i

\* ---- format_packet_dict
\* a mapping that has no arp key
format_packet_dict_noarp(i) ==
    [number |-> i.number, timestamp |-> i.timestamp, length |-> i.length,
     layers |-> i.layers, protocol |-> i.protocol,
     ethernet |-> IF TruthyStr(i.src_mac)
                  THEN [src_mac |-> i.src_mac, dst_mac |-> i.dst_mac] ELSE Null,
     network |-> IF TruthyStr(i.src_ip)
                 THEN [src_ip |-> i.src_ip, dst_ip |-> i.dst_ip, is_ipv6 |-> i.is_ipv6,
                       ttl |-> i.ttl]
                 ELSE Null,
     transport |-> IF TruthyInt(i.src_port)
                   THEN [src_port |-> i.src_port, dst_port |-> i.dst_port,
                         tcp_flags |-> i.tcp_flags]
                   ELSE Null,
     application |-> IF TruthyStr(i.application)
                     THEN [name |-> i.application, details |-> i.application_details]
                     ELSE Null,
     raw_hex |-> i.raw_hex]

format_packet_dict(i) ==
    [number |-> i.number,
     timestamp |-> i.timestamp,
     length |-> i.length,
     layers |-> i.layers,
     protocol |-> i.protocol,
     ethernet |-> IF TruthyStr(i.src_mac)
                  THEN [src_mac |-> i.src_mac, dst_mac |-> i.dst_mac] ELSE Null,
     network |-> IF TruthyStr(i.src_ip)
                 THEN [src_ip |-> i.src_ip, dst_ip |-> i.dst_ip, is_ipv6 |-> i.is_ipv6,
                       ttl |-> i.ttl]
                 ELSE Null,
     transport |-> IF TruthyInt(i.src_port)
                   THEN [src_port |-> i.src_port, dst_port |-> i.dst_port,
                         tcp_flags |-> i.tcp_flags]
                   ELSE Null,
     arp |-> IF TruthyStr(i.arp_sender_ip)
             THEN [sender_ip |-> i.arp_sender_ip, sender_mac |-> i.arp_sender_mac,
                   target_ip |-> i.arp_target_ip, target_mac |-> i.arp_target_mac,
                   type |-> i.arp_type]
             ELSE Null,
     application |-> IF TruthyStr(i.application)
                     THEN [name |-> i.application, details |-> i.application_details]
                     ELSE Null,
     raw_hex |-> i.raw_hex]

\* ---- the packet callback of the API: parse, then format
\* a frame has been handed to the callback
NormInit ==
    /\ packet_count = 0
    /\ CaptureIdle
    /\ packet \in Frames
    /\ number \in 1..MaxFrames
    /\ info = NoPacket
    /\ packet_dict = NoPacket
    /\ exported = NoPacket
    /\ loaded = NoPacket
    /\ npc = "received"
    /\ LoadIdle
    /\ ApiIdle

\* info = parse_packet(packet, number)
Parse ==
    /\ npc = "received"
    /\ info' = parse_packet(packet, number)
    /\ npc' = IF ParseRaises(packet) THEN "raised" ELSE "parsed"
    /\ UNCHANGED <<capVars, apiVars, ldVars, packet, number, packet_dict, exported, loaded>>

\* packet_dict = format_packet_dict(info)
Format ==
    /\ npc = "parsed"
    /\ packet_dict' = format_packet_dict(info)
    /\ npc' = "formatted"
    /\ UNCHANGED <<capVars, apiVars, ldVars, packet, number, info, exported, loaded>>

\* ---- export and import: json.dump and json.load
\* Python values with their types, and JSON documents with theirs
\* (None is Py("NoneType", Null); a list holds its items, a dict its items by key)
Py(type, value) == [py |-> type, value |-> value]

\* an Optional[type]
Opt(type, o) == IF o = Null THEN Py("NoneType", Null) ELSE Py(type, o[1])

\* the mapping of format_packet_dict as the Python value it is
PyMapping(d) ==
    Py("dict",
      [number |-> Py("int", d.number),
       timestamp |-> Py("str", d.timestamp),
       length |-> Py("int", d.length),
       layers |-> Py("list", [k \in DOMAIN d.layers |-> Py("str", d.layers[k])]),
       protocol |-> Py("str", d.protocol),
       ethernet |-> IF d.ethernet = Null THEN Py("NoneType", Null)
                    ELSE Py("dict", [src_mac |-> Opt("str", d.ethernet.src_mac),
                                 dst_mac |-> Opt("str", d.ethernet.dst_mac)]),
       network |-> IF d.network = Null THEN Py("NoneType", Null)
                   ELSE Py("dict", [src_ip |-> Opt("str", d.network.src_ip),
                                dst_ip |-> Opt("str", d.network.dst_ip),
                                is_ipv6 |-> Py("bool", d.network.is_ipv6),
                                ttl |-> Opt("int", d.network.ttl)]),
       transport |-> IF d.transport = Null THEN Py("NoneType", Null)
                     ELSE Py("dict", [src_port |-> Opt("int", d.transport.src_port),
                                  dst_port |-> Opt("int", d.transport.dst_port),
                                  tcp_flags |-> Py("list", [k \in DOMAIN d.transport.tcp_flags |->
                                                          Py("str", d.transport.tcp_flags[k])])]),
       arp |-> IF d.arp = Null THEN Py("NoneType", Null)
               ELSE Py("dict", [sender_ip |-> Opt("str", d.arp.sender_ip),
                            sender_mac |-> Opt("str", d.arp.sender_mac),
                            target_ip |-> Opt("str", d.arp.target_ip),
                            target_mac |-> Opt("str", d.arp.target_mac),
                            type |-> Opt("str", d.arp.type)]),
       application |-> IF d.application = Null THEN Py("NoneType", Null)
                       ELSE Py("dict", [name |-> Opt("str", d.application.name),
                                    details |-> Py("dict", [k \in DOMAIN d.application.details |->
                                                          Py("str", d.application.details[k])])]),
       raw_hex |-> Opt("str", d.raw_hex)])

\* an encoder that writes every scalar as text
DumpScalar_text(v) ==
    CASE v.py = "NoneType" -> [json |-> "null"]
      [] v.py = "bool" -> [json |-> IF v.value THEN "true" ELSE "false"]
      [] v.py = "int" -> [json |-> "string", value |-> v.value]
      [] v.py = "str" -> [json |-> "string", value |-> v.value]

\* json.dump of None, bool, int and str
DumpScalar(v) ==
    CASE v.py = "NoneType" -> [json |-> "null"]
      [] v.py = "bool" -> [json |-> IF v.value THEN "true" ELSE "false"]
      [] v.py = "int" -> [json |-> "number", value |-> v.value]
      [] v.py = "str" -> [json |-> "string", value |-> v.value]

\* json.dump
RECURSIVE json_dump(_)
json_dump(v) ==
    CASE v.py = "list" ->
            [json |-> "array", items |-> [k \in DOMAIN v.value |-> json_dump(v.value[k])]]
      [] v.py = "dict" ->
            [json |-> "object", members |-> [k \in DOMAIN v.value |-> json_dump(v.value[k])]]
      [] OTHER -> DumpScalar(v)

\* json.load
RECURSIVE json_load(_)
json_load(j) ==
    CASE j.json = "null" -> Py("NoneType", Null)
      [] j.json = "true" -> Py("bool", TRUE)
      [] j.json = "false" -> Py("bool", FALSE)
      [] j.json = "number" -> Py("int", j.value)
      [] j.json = "string" -> Py("str", j.value)
      [] j.json = "array" -> Py("list", [k \in DOMAIN j.items |-> json_load(j.items[k])])
      [] j.json = "object" -> Py("dict", [k \in DOMAIN j.members |-> json_load(j.members[k])])

\* export_packets: json.dump(request.packets, f) with the one packet
Export ==
    /\ npc = "formatted"
    /\ exported' = json_dump(Py("list", <<PyMapping(packet_dict)>>))
    /\ npc' = "exported"
    /\ UNCHANGED <<capVars, apiVars, ldVars, packet, number, info, packet_dict, loaded>>

\* import_packets: packets = json.load(f)
Import ==
    /\ npc = "exported"
    /\ loaded' = json_load(exported)
    /\ npc' = "imported"
    /\ UNCHANGED <<capVars, apiVars, ldVars, packet, number, info, packet_dict, exported>>

NormNext == Parse \/ Format \/ Export \/ Import

NormSpec == NormInit /\ [][NormNext]_vars

\* ------------------------------------------------------- load_interfaces
\* load_interfaces.py.  A line of the tool's output is a sequence of tokens: a
\* run of digits, ".", a run of blanks (WS), "(", ")" or any other run of
\* characters without blanks and parentheses.

WS == " "
NumberText == <<"1", "2", "3", "4", "5", "6", "7", "8", "9">>

\* what a line of the output says: nothing, something else, or one interface in
\* the short or the parenthesised form
LineKinds ==
    {[kind |-> "blank"], [kind |-> "other"]}
    \cup {[kind |-> "short", dev |-> d] : d \in {<<"eth0">>, <<"\\Device\\NPF_A">>}}
    \cup {[kind |-> "full", dev |-> d, name |-> f] :
            d \in {<<"eth0">>, <<"\\Device\\NPF_A">>},
            f \in {<<"Wi-Fi">>, <<"Ethernet">>, <<"Local", WS, "Area">>}}

\* the lines 'tshark -D' prints: it numbers the interfaces it lists 1, 2, 3, ...
Rendered(kinds) ==
    [p \in DOMAIN kinds |->
        LET n == NumberText[Cardinality({q \in 1..p : kinds[q].kind \in {"short", "full"}})]
        IN  CASE kinds[p].kind = "blank" -> <<WS>>
              [] kinds[p].kind = "other" -> <<"tshark:", WS, "warning">>
              [] kinds[p].kind = "short" -> <<n, ".", WS>> \o kinds[p].dev
              [] kinds[p].kind = "full" ->
                    <<n, ".", WS>> \o kinds[p].dev \o <<WS, "(">> \o kinds[p].name \o <<")">>]

\* the start every line of an interface has: (\d+)\.\s+
Numbered(line) ==
    /\ Len(line) >= 4
    /\ \E k \in DOMAIN NumberText : line[1] = NumberText[k]
    /\ line[2] = "." /\ line[3] = WS

\* re.match(r'(\d+)\.\s+(.+?)\s+\((.+?)\)', line): both groups are lazy, the
\* first ends at the first blank that is followed by "(" and a later ")"
match(line) ==
    LET n == Len(line)
        First(S) == CHOOSE i \in S : \A j \in S : i <= j
        Closes(i) == { j \in (i + 3)..(n - 1) : line[j + 1] = ")" }
        Ends == { i \in 4..(n - 4) :
                    line[i + 1] = WS /\ line[i + 2] = "(" /\ Closes(i) # {} }
    IN  IF Numbered(line) /\ Ends # {}
        THEN [number |-> line[1],
              device_path |-> SubSeq(line, 4, First(Ends)),
              friendly_name |-> SubSeq(line, First(Ends) + 3, First(Closes(First(Ends))))]
        ELSE Null

\* re.match(r'(\d+)\.\s+(\S+)', line): the group is the longest run without a blank
match_simple(line) ==
    LET n == Len(line)
        Runs == { k \in 4..n : \A m \in 4..k : line[m] # WS }
    IN  IF Numbered(line) /\ Runs # {}
        THEN [number |-> line[1],
              device_name |-> SubSeq(line, 4, CHOOSE k \in Runs : \A m \in Runs : m <= k)]
        ELSE Null

\* a display name without the number
DisplayName_nonumber(n, name) == <<name>>

\* display_name = f"{number}. {name}"
DisplayName(n, name) == <<n, ". ", name>>

\* interfaces.append(display_name); interface_map[display_name] = device
Added(acc, display_name, device) ==
    [interfaces |-> Append(acc.interfaces, display_name),
     interface_map |-> (display_name :> device) @@ acc.interface_map]

\* one iteration of the loop over the lines
ReadLine(line, acc) ==
    IF \A i \in DOMAIN line : line[i] = WS THEN acc
    ELSE IF match(line) # Null
         THEN Added(acc, DisplayName(match(line).number, match(line).friendly_name),
                    match(line).device_path)
         ELSE IF match_simple(line) # Null
              THEN Added(acc, DisplayName(match_simple(line).number,
                                          match_simple(line).device_name),
                         match_simple(line).device_name)
              ELSE acc

RECURSIVE ReadLines(_, _)
ReadLines(lines, acc) ==
    IF lines = <<>> THEN acc
    ELSE ReadLines(Tail(lines), ReadLine(Head(lines), acc))

\* the tool has run
LoadInit ==
    /\ packet_count = 0
    /\ CaptureIdle
    /\ NormIdle
    /\ ApiIdle
    /\ tool \in [returncode : {0, 1},
                 stdout : { Rendered(k) :
                              k \in UNION { [1..n -> LineKinds] : n \in 0..MaxLines } }]
    /\ interfaces = <<>>
    /\ interface_map = <<>>
    /\ lpc = "called"

\* load_interfaces: raise RuntimeError when the tool failed
LoadFails ==
    /\ lpc = "called"
    /\ tool.returncode # 0
    /\ lpc' = "raised"
    /\ UNCHANGED <<capVars, nrmVars, apiVars, tool, interfaces, interface_map>>

\* load_interfaces: return interfaces, interface_map
Load ==
    /\ lpc = "called"
    /\ tool.returncode = 0
    /\ interfaces' = ReadLines(tool.stdout, [interfaces |-> <<>>, interface_map |-> <<>>]).interfaces
    /\ interface_map' =
            ReadLines(tool.stdout, [interfaces |-> <<>>, interface_map |-> <<>>]).interface_map
    /\ lpc' = "returned"
    /\ UNCHANGED <<capVars, nrmVars, apiVars, tool>>

LoadNext == Load \/ LoadFails

LoadSpec == LoadInit /\ [][LoadNext]_vars

\* ------------------------------------------------------------------ api.py
\* The capture endpoints of api.py.  Each request handler runs on its own thread
\* (the handlers are plain functions, served from a thread pool) and each
\* successful /capture/start creates one run_capture thread.  PacketCapture is
\* seen from outside: start is entered, calls the packet handler and returns.

\* the handlers write one key of capture_state at a time
Assigned(key, value) == [capture_state EXCEPT ![key] = value]

\* start_capture: if capture_state["is_capturing"]: raise HTTPException(400, ...)
StartCheck(r) ==
    /\ req[r] = "none"
    /\ \A p \in Requests : p < r => req[p] # "none"
    /\ req' = [req EXCEPT ![r] = IF capture_state.is_capturing THEN "rejected" ELSE "lookup"]
    /\ UNCHANGED <<capVars, nrmVars, ldVars, capture_state, thr, thr_capture, api_captured, stopreq, stop_called>>

\* start_capture: get_interface_device(...) finds the interface, or raises KeyError
\* and the handler's except clause clears is_capturing and answers 500
StartLookup(r) ==
    /\ req[r] = "lookup"
    /\ \E found \in BOOLEAN :
        IF found
        THEN /\ req' = [req EXCEPT ![r] = "create"]
             /\ UNCHANGED capture_state
        ELSE /\ req' = [req EXCEPT ![r] = "failed"]
             /\ capture_state' = Assigned("is_capturing", FALSE)
    /\ UNCHANGED <<capVars, nrmVars, ldVars, thr, thr_capture, api_captured, stopreq, stop_called>>

\* start_capture: capture_state["capture"] = PacketCapture(config)
StartCreate(r) ==
    /\ req[r] = "create"
    /\ capture_state' = Assigned("capture", r)
    /\ req' = [req EXCEPT ![r] = "clear"]
    /\ UNCHANGED <<capVars, nrmVars, ldVars, thr, thr_capture, api_captured, stopreq, stop_called>>

\* start_capture: capture_state["packets"] = []
StartClear(r) ==
    /\ req[r] = "clear"
    /\ capture_state' = Assigned("packets", <<>>)
    /\ req' = [req EXCEPT ![r] = "flag"]
    /\ UNCHANGED <<capVars, nrmVars, ldVars, thr, thr_capture, api_captured, stopreq, stop_called>>

\* start_capture: capture_state["is_capturing"] = True
StartFlag(r) ==
    /\ req[r] = "flag"
    /\ capture_state' = Assigned("is_capturing", TRUE)
    /\ req' = [req EXCEPT ![r] = "spawn"]
    /\ UNCHANGED <<capVars, nrmVars, ldVars, thr, thr_capture, api_captured, stopreq, stop_called>>

\* start_capture: thread.start(); return {"status": "started", ...}
StartThread(r) ==
    /\ req[r] = "spawn"
    /\ thr' = [thr EXCEPT ![r] = "created"]
    /\ req' = [req EXCEPT ![r] = "started"]
    /\ UNCHANGED <<capVars, nrmVars, ldVars, capture_state, thr_capture, api_captured, stopreq, stop_called>>

\* run_capture: capture_state["capture"].start(packet_handler) is entered and
\* resets the packet counter of that PacketCapture
RunStart(r) ==
    /\ thr[r] = "created"
    /\ thr_capture' = [thr_capture EXCEPT ![r] = capture_state.capture]
    /\ api_captured' = [api_captured EXCEPT ![capture_state.capture] = 0]
    /\ thr' = [thr EXCEPT ![r] = "running"]
    /\ UNCHANGED <<capVars, nrmVars, ldVars, capture_state, req, stopreq, stop_called>>

\* the worker of the PacketCapture counts a frame and calls
\* packet_handler(packet, number): parse, format and
\* capture_state["packets"].append(packet_dict), or skip the packet when parsing raised
PacketHandler(r) ==
    /\ thr[r] = "running"
    /\ api_captured[thr_capture[r]] < MaxFrames
    /\ Len(capture_state.packets) < MaxStored
    /\ api_captured' = [api_captured EXCEPT ![thr_capture[r]] = @ + 1]
    /\ \E parsed \in BOOLEAN :
        capture_state' =
            IF parsed
            THEN Assigned("packets", Append(capture_state.packets,
                                            [capture |-> thr_capture[r], handler |-> r,
                                             number |-> api_captured[thr_capture[r]] + 1]))
            ELSE capture_state
    /\ UNCHANGED <<capVars, nrmVars, ldVars, req, thr, thr_capture, stopreq, stop_called>>

\* run_capture: start returns (count reached, timeout, stop or error)
RunReturn(r) ==
    /\ thr[r] = "running"
    /\ thr' = [thr EXCEPT ![r] = "finally"]
    /\ UNCHANGED <<capVars, nrmVars, ldVars, capture_state, req, thr_capture, api_captured, stopreq, stop_called>>

\* run_capture: finally: capture_state["is_capturing"] = False
RunFinally(r) ==
    /\ thr[r] = "finally"
    /\ capture_state' = Assigned("is_capturing", FALSE)
    /\ thr' = [thr EXCEPT ![r] = "done"]
    /\ UNCHANGED <<capVars, nrmVars, ldVars, req, thr_capture, api_captured, stopreq, stop_called>>

\* stop_capture: if not capture_state["is_capturing"]: return not_capturing
StopCheck(q) ==
    /\ stopreq[q] = "none"
    /\ \A p \in StopRequests : p < q => stopreq[p] # "none"
    /\ stopreq' = [stopreq EXCEPT ![q] = IF capture_state.is_capturing THEN "call"
                                         ELSE "not_capturing"]
    /\ UNCHANGED <<capVars, nrmVars, ldVars, capture_state, req, thr, thr_capture, api_captured, stop_called>>

\* stop_capture: if capture_state["capture"]: capture_state["capture"].stop()
StopCall(q) ==
    /\ stopreq[q] = "call"
    /\ stop_called' = IF capture_state.capture # 0
                       THEN stop_called \cup {capture_state.capture} ELSE stop_called
    /\ stopreq' = [stopreq EXCEPT ![q] = "clear"]
    /\ UNCHANGED <<capVars, nrmVars, ldVars, capture_state, req, thr, thr_capture, api_captured>>

\* stop_capture: capture_state["is_capturing"] = False; return stopped
StopClear(q) ==
    /\ stopreq[q] = "clear"
    /\ capture_state' = Assigned("is_capturing", FALSE)
    /\ stopreq' = [stopreq EXCEPT ![q] = "stopped"]
    /\ UNCHANGED <<capVars, nrmVars, ldVars, req, thr, thr_capture, api_captured, stop_called>>

ApiNext ==
    \/ \E r \in Requests :
        \/ StartCheck(r) \/ StartLookup(r) \/ StartCreate(r) \/ StartClear(r)
        \/ StartFlag(r) \/ StartThread(r)
        \/ RunStart(r) \/ PacketHandler(r) \/ RunReturn(r) \/ RunFinally(r)
    \/ \E q \in StopRequests : StopCheck(q) \/ StopCall(q) \/ StopClear(q)

ApiInit ==
    /\ packet_count = 0
    /\ CaptureIdle
    /\ NormIdle
    /\ LoadIdle
    /\ ApiIdle

ApiSpec == ApiInit /\ [][ApiNext]_vars

\* ------------------------------------------------------------------ claims
\* what was true of the session when start returned
NoStopCalled == snap.stops = 0 /\ snap.stopAt = 0
NoRaise == snap.raiseAt = 0
SourceAvailable == snap.exit \notin {"open_error", "exhausted", "exception"}
FramesBeforeTimeout == snap.dlv >= packet_count /\ (toFired => dlvAtTO >= packet_count)

\* C1 (as stated): with packet_count = N > 0 and N frames delivered before the
\* timeout, start returns packets_captured = N and stopped_by_timeout = FALSE; with
\* no stop() and no raising handler also stopped_by_user = FALSE and error = None.
C1_AsStated ==
    (Returned /\ packet_count > 0 /\ FramesBeforeTimeout)
        => /\ stats.packets_captured = packet_count
           /\ ~stats.stopped_by_timeout
           /\ (NoStopCalled /\ NoRaise) => (~stats.stopped_by_user /\ stats.error = None)

\* C1 (amended): with packet_count = N > 0, N frames received by the worker, none of
\* them received with the stop flag set, and the worker finished before the timeout
\* wait expired, start returns packets_captured = N and stopped_by_timeout = FALSE;
\* with no stop() and no raising handler also stopped_by_user = FALSE, error = None.
C1_CountReached ==
    (Returned /\ packet_count > 0 /\ snap.dlv >= packet_count
              /\ snap.exit # "stop_pre" /\ ~toFired)
        => /\ stats.packets_captured = packet_count
           /\ ~stats.stopped_by_timeout
           /\ (NoStopCalled /\ NoRaise) => (~stats.stopped_by_user /\ stats.error = None)

C1_Witness ==
    /\ Returned /\ packet_count = MaxCount /\ snap.dlv = packet_count /\ ~toFired
    /\ snap.exit = "count" /\ NoStopCalled /\ NoRaise
    /\ stats.packets_captured = packet_count /\ stats.error = None

\* C2: the sequence numbers passed to the packet callback are 1, 2, ... in that
\* order, and they end at packets_captured (the counter is one ahead only between
\* the increment and the call that follows it).
C2_SequenceNumbers ==
    /\ \A i \in 1..Len(cb_log) : cb_log[i] = i
    /\ Len(cb_log) = IF \E w \in Workers : wpc[w] = "call"
                     THEN packets_captured - 1 ELSE packets_captured
    /\ (Returned /\ ~snap.alive) => stats.packets_captured = snap.calls

C2_Witness == Returned /\ ~snap.alive /\ cb_log = <<1, 2>> /\ stats.packets_captured = 2

C4_AsStated ==
    (Returned /\ packet_count = 0 /\ NoStopCalled /\ SourceAvailable)
        => (stats.stopped_by_timeout /\ toFired)

\* C4 (amended): with packet_count = 0, no stop(), an available source and a callback
\* that does not raise, start returns stopped_by_timeout = TRUE and not before the
\* timeout wait has expired.
C4_Unbounded ==
    (Returned /\ packet_count = 0 /\ NoStopCalled /\ SourceAvailable /\ NoRaise)
        => (stats.stopped_by_timeout /\ toFired /\ ~stats.stopped_by_user)

C4_Witness ==
    /\ Returned /\ packet_count = 0 /\ NoStopCalled /\ SourceAvailable /\ NoRaise
    /\ snap.calls >= 2 /\ stats.stopped_by_timeout

\* C5: after stop() of another thread has set the flag during a session, at most
\* one further invocation of the packet callback begins.
C5_AtMostOneMore == cbAfterStop <= 1

C5_Witness == extStopped /\ cbAfterStop = 1 /\ Len(cb_log) >= 2

C7_AsStated == Returned => snap.exit # "open_error"

\* C7 (amended): when opening the handle fails, start returns a CaptureStats with
\* packets_captured = 0 and no callback invocation; its error is the failure's
\* message, unless a stop or the timeout came first: then error is None and the
\* session is reported stopped_by_user or stopped_by_timeout.
C7_OpenFailure ==
    (Returned /\ snap.exit = "open_error")
        => /\ stats.packets_captured = 0
           /\ snap.calls = 0
           /\ \/ stats.error = OpenError
              \/ stats.error = None /\ (stats.stopped_by_user \/ stats.stopped_by_timeout)

C7_Witness ==
    /\ Returned /\ snap.exit = "open_error" /\ stats.error = OpenError
    /\ ~stats.stopped_by_user /\ ~stats.stopped_by_timeout

\* C8: if the callback raises during its k-th invocation, it is not invoked again
\* and start returns a CaptureStats with error = the message and packets_captured = k.
C8_CallbackError ==
    /\ raiseAt > 0 => Len(cb_log) = raiseAt
    /\ (Returned /\ snap.raiseAt > 0)
          => (stats.error = CallbackError /\ stats.packets_captured = snap.raiseAt)

C8_Witness ==
    /\ Returned /\ snap.raiseAt = 2 /\ stats.error = CallbackError
    /\ stats.packets_captured = 2

\* C9: stopped_by_user and stopped_by_timeout are never both true in the returned
\* CaptureStats.
C9_Exclusive == Returned => ~(stats.stopped_by_user /\ stats.stopped_by_timeout)

C9_Witness ==
    /\ Returned /\ stats.stopped_by_timeout /\ ~stats.stopped_by_user
    /\ snap.stops > 0 /\ snap.stopAt > 0

\* C10 (as stated): both flags false means the worker left its loop because the
\* count was reached or the source was exhausted.
C10_AsStated ==
    (Returned /\ ~stats.stopped_by_user /\ ~stats.stopped_by_timeout)
        => snap.exit \in {"count", "exhausted"}

\* C10 (amended): both flags false means the worker left its loop because the count
\* was reached, the source was exhausted, or an error that is reported in error.
C10_BothFalse ==
    (Returned /\ ~stats.stopped_by_user /\ ~stats.stopped_by_timeout)
        => \/ snap.exit \in {"count", "exhausted"}
           \/ /\ snap.exit \in {"cb_error", "open_error", "exception", "unblocked"}
              /\ stats.error # None

C10_Witness ==
    /\ Returned /\ ~stats.stopped_by_user /\ ~stats.stopped_by_timeout
    /\ snap.exit = "cb_error" /\ stats.error = CallbackError

\* C11: stop() is idempotent. Applying it twice gives the state one application
\* gives; a stop() step (of the callback or of another thread) taken where the
\* effects of a stop() are already in place changes none of the state stop()
\* writes; and a stop() step taken after start has returned changes no field of
\* the returned stats, no value the accessors read and adds no callback invocation.
C11_Idempotent ==
    /\ [](stop(stop(StopState)) = stop(StopState))
    /\ [][((StopState = stop(StopState)) /\ (Stopper \/ \E w \in Workers : CbStop(w)))
            => (StopState' = StopState)]_vars
    /\ [][(Returned /\ Stopper)
            => /\ stats' = stats
               /\ packets_captured' = packets_captured
               /\ is_capturing' = is_capturing
               /\ error_msg' = error_msg
               /\ cb_log' = cb_log]_vars

C11_Witness ==
    /\ Returned /\ snap.stopAt > 0 /\ snap.stops = 0
    /\ stops = 1 /\ spc = "idle" /\ stop_event /\ ~is_capturing
    /\ StopState = stop(StopState)

\* C12: for every handle a worker opens, the close of that handle is performed
\* exactly once, after the worker left its loop and on whichever path it left it
\* (count reached, stop flag seen before or after the callback, callback raised,
\* source exhausted, engine raised, forced unblock); a worker whose open failed
\* holds no handle and closes none.  One start on a fresh instance.
C12_ClosedOnce ==
    \A w \in Workers :
        /\ closes[w] <= 1
        /\ (wpc[w] \in {"cleanup_loop", "done"} /\ wexit[w] # "open_error") => closes[w] = 1
        /\ (wpc[w] \notin {"cleanup_loop", "done"} \/ wexit[w] = "open_error") => closes[w] = 0

C12_Witness ==
    /\ wpc[1] = "done" /\ wexit[1] = "unblocked" /\ toFired /\ stops = 0
    /\ stopped_by_timeout /\ closes[1] = 1

\* C14 (as stated): whenever start finds the worker alive after the timeout wait
\* expired, then by the time it begins the grace wait it has marked
\* stopped_by_timeout, set the stop flag and scheduled the stop of the worker's
\* event loop, whatever the worker is doing.
C14_AsStated ==
    [][(cpc = "force" /\ cpc' = "grace")
        => (stopped_by_timeout' /\ stop_event' /\ loop_stop'[capture_thread])]_vars

\* the worker has not yet stored its handle when the unblock is decided
C14_NotYetOpen ==
    /\ cpc = "grace" /\ stopped_by_timeout /\ stop_event
    /\ wpc[capture_thread] \in {"newloop", "open"} /\ ~loop_stop[capture_thread]

\* C15 (as stated): an error message is recorded only when no stop has been
\* requested, and only for a failure to open the handle or an exception raised by
\* the callback.
C15_AsStated ==
    [][(error_msg' # error_msg /\ error_msg' # None)
        => (~stop_event /\ error_msg' \in {OpenError, CallbackError})]_vars

\* C15 (amended): an exception that reaches the worker's outer handler while the
\* stop flag is set is suppressed (the error is left as it was); what is recorded
\* is an exception raised by the callback, stop requested or not, and an exception
\* of the open or of the engine handled while the stop flag is not set.
C15_Suppressed ==
    [][/\ \A w \in Workers :
            (wpc[w] = "except" /\ wpc'[w] = "cleanup" /\ stop_event)
                => error_msg' = error_msg
       /\ (error_msg' # error_msg /\ error_msg' # None)
            => \/ error_msg' = CallbackError
               \/ (~stop_event /\ error_msg' \in {OpenError, EngineError, LoopStopped})]_vars

C15_Witness ==
    /\ Returned /\ ~snap.alive /\ snap.exit = "exception" /\ snap.stops = 1
    /\ stop_event /\ stats.error = None /\ stats.stopped_by_user

\* C16 (as stated): when start returns, at most one of stopped_by_user,
\* stopped_by_timeout and error-is-set holds, and none of them holds exactly when
\* the session completed (packet_count reached or source exhausted).
C16_AsStated ==
    Returned =>
        /\ ~(stats.stopped_by_user /\ stats.stopped_by_timeout)
        /\ ~(stats.stopped_by_user /\ stats.error # None)
        /\ ~(stats.stopped_by_timeout /\ stats.error # None)
        /\ (~stats.stopped_by_user /\ ~stats.stopped_by_timeout /\ stats.error = None)
            <=> (snap.exit \in {"count", "exhausted"})

\* C16 (amended): when start returns, stopped_by_user and stopped_by_timeout are
\* not both true (error can be set together with either), and when neither flag is
\* true and error is not set the worker ended because packet_count was reached or
\* the source was exhausted.
C16_EndStates ==
    Returned =>
        /\ ~(stats.stopped_by_user /\ stats.stopped_by_timeout)
        /\ (~stats.stopped_by_user /\ ~stats.stopped_by_timeout /\ stats.error = None)
            => (snap.exit \in {"count", "exhausted"})

C16_Witness ==
    /\ Returned /\ stats.stopped_by_user /\ stats.error = CallbackError
    /\ snap.stopAt > 0 /\ snap.raiseAt = snap.stopAt

\* C17: an exception raised by a release in the teardown (the close of the handle,
\* the cancelling of pending tasks, the close of the loop) is discarded: the step
\* leaves the recorded error as it was, the worker goes on to the next step of the
\* teardown or ends, and the error start returns is never the teardown's.
C17_Discarded ==
    /\ [](error_msg # TeardownError /\ (Returned => stats.error # TeardownError))
    /\ [][\A w \in Workers :
            (tdRaised'[w] /\ wpc'[w] # wpc[w] /\ wpc[w] \in {"cleanup", "cleanup_loop"})
                => /\ error_msg' = error_msg
                   /\ wpc'[w] = IF wpc[w] = "cleanup" THEN "cleanup_loop" ELSE "done"]_vars

C17_Witness ==
    /\ Returned /\ ~snap.alive /\ tdRaised[1] /\ wpc[1] = "done"
    /\ snap.exit = "count" /\ stats.error = None
    /\ ~stats.stopped_by_user /\ ~stats.stopped_by_timeout

\* C13 (as stated): on one instance, across serialized start calls, no two
\* invocations of the packet callback run at the same time, and no invocation
\* runs while a teardown (_cleanup_capture) is running.
C13_AsStated ==
    \A v, w \in Workers :
        (v # w /\ wpc[v] = "in_cb") => wpc[w] \notin {"in_cb", "cleanup_loop"}

\* the callback of the abandoned worker of a timed-out start runs beside the
\* callback of the worker of the next start
C13_Overlap ==
    /\ wpc[1] = "in_cb" /\ wpc[2] = "in_cb" /\ capture_thread = 2 /\ cpc = "join"

\* C18: for every frame with an ARP layer, whatever other layers it has, the record
\* parse_packet returns has protocol "ARP" and nothing of the network, transport or
\* application parsing (addresses, TTL, ports, flags, application all at their
\* defaults), and the mapping has protocol "ARP", network null and transport null.
C18_ArpOnly ==
    (npc \in {"parsed", "formatted"} /\ HasLayer(packet, "arp"))
        => /\ info.protocol = "ARP"
           /\ info.src_ip = Null /\ info.dst_ip = Null /\ info.ttl = Null
           /\ ~info.is_ipv6
           /\ info.src_port = Null /\ info.dst_port = Null /\ info.tcp_flags = <<>>
           /\ info.application = Null /\ info.application_details = <<>>
           /\ (npc = "formatted")
                => /\ packet_dict.protocol = "ARP"
                   /\ packet_dict.network = Null
                   /\ packet_dict.transport = Null

C18_Witness ==
    /\ npc = "formatted"
    /\ {"arp", "ip", "tcp", "http"} \subseteq DOMAIN packet.fields
    /\ packet_dict.protocol = "ARP" /\ packet_dict.arp # Null
    /\ packet_dict.network = Null /\ packet_dict.transport = Null

\* a frame whose TCP layer is parsed: IPv4 or IPv6, no ARP
TcpFrame(p) == HasLayer(p, "tcp") /\ ~HasLayer(p, "arp")
               /\ (HasLayer(p, "ip") \/ HasLayer(p, "ipv6"))

\* the flags whose sub-field is '1', in the order SYN, ACK, FIN, PSH, RST, URG
FlagsInOrder(p) ==
    SelectSeq(<<"SYN", "ACK", "FIN", "PSH", "RST", "URG">>,
              LAMBDA n : LET a == (("SYN" :> "flags_syn") @@ ("ACK" :> "flags_ack") @@
                                   ("FIN" :> "flags_fin") @@ ("PSH" :> "flags_push") @@
                                   ("RST" :> "flags_reset") @@ ("URG" :> "flags_urg"))[n]
                           IN  a \in DOMAIN p.fields["tcp"] /\ p.fields["tcp"][a] = "1")

\* C19 (as stated): for every TCP frame and every combination of the six flag
\* sub-fields, tcp_flags of the record is the list of the flags that are set in the
\* order SYN, ACK, FIN, PSH, RST, URG, and the mapping has a transport group whose
\* tcp_flags is that list.
C19_AsStated ==
    (npc = "formatted" /\ TcpFrame(packet))
        => /\ info.tcp_flags = FlagsInOrder(packet)
           /\ packet_dict.transport # Null
           /\ packet_dict.transport.tcp_flags = FlagsInOrder(packet)

\* a TCP frame from source port 0 with SYN and ACK set: the record has the flags,
\* the mapping has no transport group
C19_PortZero ==
    /\ npc = "formatted" /\ TcpFrame(packet)
    /\ info.src_port = Some(0) /\ info.tcp_flags = <<"SYN", "ACK">>
    /\ packet_dict.transport = Null

\* the user-agent value of an HTTP layer that parse_packet reaches
UserAgentOf(p) ==
    IF HasLayer(p, "http") /\ Branch(p) \in {"ip", "ipv6"}
    THEN FirstAttr(p, "http", <<"user_agent", "request_user_agent">>)
    ELSE Null

\* C20: for every HTTP frame with a user-agent value u, the stored user_agent is
\* the first 47 characters of u followed by "..." (50 characters) when len(u) > 50
\* and u itself when len(u) <= 50; it is never longer than 50 characters, and the
\* mapping carries the same value.
C20_UserAgent ==
    (npc \in {"parsed", "formatted"} /\ UserAgentOf(packet) # Null)
        => LET u == UserAgentOf(packet)[1]
           IN  /\ "user_agent" \in DOMAIN info.application_details
               /\ LET stored == info.application_details["user_agent"]
                  IN  /\ (Len(u) > 50)
                            => /\ stored = SubSeq(u, 1, 47) \o <<".", ".", ".">>
                               /\ Len(stored) = 50
                      /\ (Len(u) <= 50) => stored = u
                      /\ Len(stored) <= 50
                      /\ (npc = "formatted")
                            => packet_dict.application.details["user_agent"] = stored

C20_Witness ==
    /\ npc = "formatted" /\ UserAgentOf(packet) # Null
    /\ Len(UserAgentOf(packet)[1]) = 51
    /\ Len(packet_dict.application.details["user_agent"]) = 50
    /\ SubSeq(packet_dict.application.details["user_agent"], 47, 50) = <<"a", ".", ".", ".">>

\* C21 (as stated): in the mapping of every frame that is parsed, each optional
\* group is non-null exactly when its governing layer was detected: ethernet iff an
\* Ethernet layer, network iff the IPv4 or IPv6 branch was taken, transport iff a
\* TCP or UDP layer was parsed, arp iff an ARP layer, application iff an HTTP, DNS
\* or TLS layer was parsed.
C21_AsStated ==
    (npc = "formatted")
        => /\ (packet_dict.ethernet # Null) <=> HasLayer(packet, "eth")
           /\ (packet_dict.network # Null) <=> (Branch(packet) \in {"ip", "ipv6"})
           /\ (packet_dict.transport # Null)
                <=> (Branch(packet) \in {"ip", "ipv6"}
                     /\ (HasLayer(packet, "tcp") \/ HasLayer(packet, "udp")))
           /\ (packet_dict.arp # Null) <=> HasLayer(packet, "arp")
           /\ (packet_dict.application # Null)
                <=> (Branch(packet) \in {"ip", "ipv6"}
                     /\ (HasLayer(packet, "http") \/ HasLayer(packet, "dns")
                         \/ HasLayer(packet, "tls")))

\* an ARP frame without the sender address sub-field: the other ARP sub-fields are
\* in the record, the mapping has no arp group
C21_ArpDropped ==
    /\ npc = "formatted" /\ HasLayer(packet, "arp")
    /\ ~HasAttr(packet, "arp", "src_proto_ipv4")
    /\ info.arp_sender_mac # Null /\ info.arp_type = Some("Request")
    /\ packet_dict.protocol = "ARP" /\ packet_dict.arp = Null

\* C23 (as stated): parse_packet returns a record for every frame, whatever layers
\* and sub-fields are present or absent; it never raises.
C23_AsStated == npc # "raised"

\* an IPv4 TCP frame without the source port sub-field makes parse_packet raise
C23_Raises ==
    /\ npc = "raised" /\ info = Raised
    /\ HasLayer(packet, "eth") /\ HasLayer(packet, "ip") /\ HasLayer(packet, "tcp")
    /\ ~HasAttr(packet, "tcp", "srcport") /\ HasAttr(packet, "tcp", "dstport")
    /\ DOMAIN packet.fields["eth"] = {"src", "dst"}
    /\ DOMAIN packet.fields["ip"] = {"src", "dst", "ttl"}

\* C24: the mapping format_packet_dict returns has exactly the keys number,
\* timestamp, length, layers, protocol, ethernet, network, transport, arp,
\* application and raw_hex, also when their values are null, and its number and
\* length are those of the record (the number given to parse_packet, the int of
\* the frame's length).
C24_Keys ==
    (npc = "formatted")
        => /\ DOMAIN packet_dict = {"number", "timestamp", "length", "layers", "protocol",
                                    "ethernet", "network", "transport", "arp",
                                    "application", "raw_hex"}
           /\ packet_dict.number = info.number /\ packet_dict.number = number
           /\ packet_dict.length = info.length
           /\ packet_dict.length = int(packet.length)

C24_Witness ==
    /\ npc = "formatted" /\ "arp" \in DOMAIN packet_dict
    /\ packet_dict.ethernet = Null /\ packet_dict.network = Null
    /\ packet_dict.transport = Null /\ packet_dict.arp = Null
    /\ packet_dict.application = Null
    /\ packet_dict.number = MaxFrames /\ packet_dict.length = 60

C27_StopBeforeFrame ==
    [][\A w \in Workers :
        (wpc[w] = "precheck" /\ stop_event)
            => /\ stop_event'
               /\ packets_captured' = packets_captured
               /\ packets' = packets
               /\ cb_log' = cb_log
               /\ wpc'[w] \in {"precheck", "cleanup"}
               /\ wpc'[w] = "cleanup" => wexit'[w] = "stop_pre"]_vars

C27_Witness ==
    /\ Returned /\ snap.exit = "stop_pre" /\ ~snap.alive
    /\ snap.dlv = 2 /\ stats.packets_captured = 1 /\ snap.calls = 1

\* C30 (as stated): when the worker finishes before the timeout wait expires,
\* stopped_by_user is reported only if the stop flag was what ended the worker's loop.
C30_AsStated ==
    (Returned /\ ~toFired /\ stats.stopped_by_user)
        => snap.exit \in {"stop_pre", "stop_post", "unblocked"}

\* the worker left its loop because the count was reached, another thread's stop()
\* set the flag before start classified the session
C30_LateStop ==
    /\ Returned /\ ~toFired /\ stats.stopped_by_user
    /\ snap.exit = "count" /\ snap.stops = 1 /\ snap.stopAt = 0
    /\ stats.packets_captured = packet_count

\* C28 (as stated): every start call begins from the reset state and its outcome
\* does not depend on the previous session: when start creates its worker the stop
\* flag is clear, the counter is 0 and the error is null, and the count it returns
\* is a count of frames its own worker received.
C28_AsStated ==
    /\ [][(cpc = "spawn" /\ cpc' = "join")
            => (~stop_event /\ packets_captured = 0 /\ error_msg = None)]_vars
    /\ [](Returned => stats.packets_captured <= snap.dlv)

\* the second start returns a count that includes a frame counted by the worker the
\* first start abandoned
C28_Inherited ==
    /\ Returned /\ capture_thread = 2
    /\ stats.packets_captured > snap.dlv

\* C29 (as stated): once a stop has been requested (the stop flag is set, by stop()
\* or by the timeout branch of start), a worker thread that exists terminates,
\* even if no further frame arrives, whatever it was doing when the stop was
\* requested.
C29_AsStated ==
    \A w \in Workers :
        (stop_event /\ wpc[w] \notin {"none", "done"}) ~> (wpc[w] = "done")

\* start has returned after the timeout, no stop() is running, and the worker
\* waits for a frame with the stop flag set and no stop of its loop scheduled
C29_Stuck ==
    /\ Returned /\ stats.stopped_by_timeout /\ spc = "idle"
    /\ stop_event /\ wpc[capture_thread] = "wait" /\ ~loop_stop[capture_thread]

\* C26: in the result of load_interfaces every display name of the list is a key
\* of the map, and the list and the map have the same number of entries.
C26_Consistent ==
    (lpc = "returned")
        => /\ \A i \in DOMAIN interfaces : interfaces[i] \in DOMAIN interface_map
           /\ Len(interfaces) = Cardinality(DOMAIN interface_map)

C26_Witness ==
    /\ lpc = "returned" /\ Len(interfaces) = 3
    /\ interfaces[1] = <<"1", ". ", <<"Wi-Fi">>>>
    /\ interfaces[2] = <<"2", ". ", <<"Wi-Fi">>>>
    /\ interfaces[3] = <<"3", ". ", <<"eth0">>>>
    /\ interface_map[interfaces[2]] = <<"\\Device\\NPF_A">>

\* the run_capture threads that are inside PacketCapture.start
Running == { r \in Requests : thr[r] = "running" }

\* C25 (as stated): through the API at most one capture is in progress: no two
\* executions of PacketCapture.start run at the same time, and a /capture/start
\* request that arrives while one is running is rejected.
C25_AsStated ==
    /\ [](Cardinality(Running) <= 1)
    /\ [][\A r \in Requests :
            (req[r] = "none" /\ req'[r] # "none" /\ Running # {})
                => req'[r] = "rejected"]_vars

\* start, stop, start: the first capture was stopped through /capture/stop and its
\* start is still executing when the start of the second capture runs
C25_TwoSessions ==
    /\ req[1] = "started" /\ stopreq[1] = "stopped" /\ req[2] = "started"
    /\ thr[1] = "running" /\ thr_capture[1] = 1 /\ 1 \in stop_called
    /\ thr[2] = "running" /\ thr_capture[2] = 2

\* C38 (as stated): for every frame with an IPv4 layer, no ARP layer and none of
\* the TCP, UDP, ICMP and ICMPv6 layers, the record's protocol is "IP", the
\* network group is populated and is_ipv6 is false.
C38_AsStated ==
    (/\ npc \in {"parsed", "formatted"}
     /\ HasLayer(packet, "ip") /\ ~HasLayer(packet, "arp")
     /\ \A l \in {"tcp", "udp", "icmp", "icmpv6"} : ~HasLayer(packet, l))
        => /\ info.protocol = "IP"
           /\ info.src_ip # Null /\ ~info.is_ipv6
           /\ (npc = "formatted") => (packet_dict.network # Null)

\* an IPv4 frame that carries IPv6 and no transport layer: parsed as IPv4, labelled
\* with the engine's highest layer
C38_Tunnel ==
    /\ npc = "parsed" /\ packet.layers = <<"eth", "ip", "ipv6">>
    /\ info.protocol = "IPV6" /\ info.src_ip = Some("10.0.0.1") /\ ~info.is_ipv6

\* C39: parse_packet applies exactly one branch, the first that matches in the
\* order ARP, IPv4, IPv6, other.  A frame with an ARP layer gets no addresses; a
\* frame with IPv4 (and no ARP) gets the IPv4 addresses and TTL and is_ipv6 false,
\* also when it has an IPv6 layer; a frame with IPv6 only gets the IPv6 addresses,
\* is_ipv6 true and the hop limit as TTL; a frame with none of the three keeps
\* the engine's highest-layer label and has no network, transport or application
\* data.
C39_Dispatch ==
    (npc \in {"parsed", "formatted"})
        => LET arp == HasLayer(packet, "arp")
               ip == HasLayer(packet, "ip")
               ipv6 == HasLayer(packet, "ipv6")
           IN  /\ arp => (info.protocol = "ARP" /\ info.src_ip = Null /\ ~info.is_ipv6)
               /\ (~arp /\ ip)
                    => /\ ~info.is_ipv6
                       /\ info.src_ip = Some(packet.fields["ip"]["src"])
                       /\ info.dst_ip = Some(packet.fields["ip"]["dst"])
                       /\ info.ttl = IF HasAttr(packet, "ip", "ttl") THEN Some(64) ELSE Null
               /\ (~arp /\ ~ip /\ ipv6)
                    => /\ info.is_ipv6
                       /\ info.src_ip = Some(packet.fields["ipv6"]["src"])
                       /\ info.dst_ip = Some(packet.fields["ipv6"]["dst"])
                       /\ info.ttl = IF HasAttr(packet, "ipv6", "hlim") THEN Some(255)
                                     ELSE Null
               /\ (~arp /\ ~ip /\ ~ipv6)
                    => /\ info.protocol = packet.highest_layer
                       /\ info.src_ip = Null /\ info.dst_ip = Null /\ info.ttl = Null
                       /\ ~info.is_ipv6
                       /\ info.src_port = Null /\ info.dst_port = Null
                       /\ info.tcp_flags = <<>>
                       /\ info.application = Null /\ info.application_details = <<>>
                       /\ (npc = "formatted")
                            => /\ packet_dict.network = Null
                               /\ packet_dict.transport = Null
                               /\ packet_dict.application = Null

C39_Witness ==
    /\ npc = "formatted"
    /\ {"ip", "ipv6", "tcp"} \subseteq DOMAIN packet.fields /\ ~HasLayer(packet, "arp")
    /\ packet_dict.network # Null
    /\ packet_dict.network.is_ipv6 = FALSE /\ packet_dict.network.ttl = Some(64)
    /\ packet_dict.network.src_ip = Some("10.0.0.1")

\* C40: for every IPv4 or IPv6 frame (no ARP layer) the protocol label is the first
\* of TCP, UDP, ICMP, ICMPv6 whose layer is present (else the engine's highest
\* layer) and the application name is the first of HTTP, DNS, TLS whose layer is
\* present (else null), whatever the transport layers are; for a frame that is not
\* IPv4/IPv6 neither tier is entered: no ports, no flags, no application.
C40_Tiers ==
    (npc \in {"parsed", "formatted"})
        => LET has(l) == HasLayer(packet, l)
           IN  IF ~has("arp") /\ (has("ip") \/ has("ipv6"))
               THEN /\ info.protocol =
                        (IF has("tcp") THEN "TCP" ELSE IF has("udp") THEN "UDP"
                         ELSE IF has("icmp") THEN "ICMP"
                         ELSE IF has("icmpv6") THEN "ICMPv6" ELSE packet.highest_layer)
                    /\ info.application =
                        (IF has("http") THEN Some("HTTP") ELSE IF has("dns") THEN Some("DNS")
                         ELSE IF has("tls") THEN Some("TLS/SSL") ELSE Null)
               ELSE /\ info.protocol = IF has("arp") THEN "ARP" ELSE packet.highest_layer
                    /\ info.src_port = Null /\ info.dst_port = Null
                    /\ info.tcp_flags = <<>>
                    /\ info.application = Null /\ info.application_details = <<>>

C40_Witness ==
    /\ npc = "parsed"
    /\ DOMAIN packet.fields = {"eth", "ip", "icmp", "icmpv6", "dns", "tls"}
    /\ info.protocol = "ICMP" /\ info.application = Some("DNS")

\* C31 (as stated): the packet counter never decreases while start is executing,
\* and once start has returned it keeps the value reported in CaptureStats.
C31_AsStated ==
    /\ [][(cpc \notin {"idle", "returned"}) => (packets_captured' >= packets_captured)]_vars
    /\ [](Returned => packets_captured = stats.packets_captured)

\* start has returned after the timeout and the worker it left alive has counted
\* one more frame
C31_LateCount ==
    /\ Returned /\ stats.stopped_by_timeout /\ snap.alive
    /\ packets_captured = stats.packets_captured + 1

\* C33 (as stated): the packets_captured of the returned CaptureStats equals the
\* number of packet-callback invocations that began during the session.
C33_AsStated ==
    Returned => (stats.packets_captured = Len(cb_log))

\* start has returned after the timeout with a frame counted whose callback
\* invocation has not begun
C33_Uncalled ==
    /\ Returned /\ stats.stopped_by_timeout /\ wpc[capture_thread] = "call"
    /\ stats.packets_captured = 1 /\ Len(cb_log) = 0

\* the start call that created worker w has returned
StartReturnedFor(w) ==
    wpc[w] # "none" /\ (w # capture_thread \/ cpc \in {"returned", "mark", "spawn"})

\* C34 (as stated): after a start call has returned, the worker it created begins
\* no new invocation of the packet callback.
C34_AsStated ==
    [][\A w \in Workers :
        StartReturnedFor(w) => ~(wpc[w] = "call" /\ wpc'[w] = "in_cb")]_vars

\* the worker of the first start, abandoned in its callback at the timeout, is in
\* the callback for a second frame while the second start runs (packet_count is 1)
C34_Resumed ==
    /\ capture_thread = 2 /\ cpc = "join"
    /\ wpc[1] = "in_cb" /\ delivered[1] = 2

\* C32 (as stated): the engine keeps no buffer of past frames: what it holds does
\* not grow with the number of frames it has processed.
C32_AsStated ==
    [][Len(packets') <= Len(packets)]_vars

\* every frame counted in the session is still held by the instance when start
\* has returned
C32_Buffered ==
    /\ Returned /\ ~snap.alive /\ stats.packets_captured = 2
    /\ packets = <<<<1, 1>>, <<1, 2>>>>

\* C35 (as stated): with packet_count = N > 0 the packet counter never exceeds N
\* in any state of a session, and the callback is never invoked with a sequence
\* number greater than N.
C35_AsStated ==
    (packet_count > 0)
        => /\ packets_captured <= packet_count
           /\ \A i \in 1..Len(cb_log) : cb_log[i] <= packet_count

\* in the second session on an instance with packet_count = 1 the counter is 2 and
\* the callback has been invoked with sequence number 2
C35_Exceeded ==
    /\ packet_count = 1 /\ capture_thread = 2 /\ cpc = "join"
    /\ packets_captured = 2 /\ Len(cb_log) >= 1 /\ cb_log[Len(cb_log)] = 2

\* no start call is executing on the instance: none was made, or the call has
\* returned, or it was left by an exception
NoStartExecuting == cpc \in {"idle", "returned", "raised"}

\* C36 (as stated): is_capturing is false whenever no start call is executing on
\* the instance: before the first start and after every exit of start, by a return
\* or by an exception.
C36_AsStated == NoStartExecuting => ~is_capturing

\* start was left by the exception of the status callback, no worker thread was
\* created, and is_capturing is still true
C36_LeftSet ==
    /\ cpc = "raised" /\ is_capturing
    /\ capture_thread = 0 /\ \A w \in Workers : wpc[w] = "none"

\* C37 (as stated): the API's packet list only holds packets of the most recently
\* created capture, in strictly increasing packet number: every append is made for
\* the capture that capture_state holds, under every interleaving of the start and
\* stop handlers and the capture threads.  (While a start handler stands between
\* creating its capture and emptying the list, the list is still the old one.)
C37_AsStated ==
    /\ [][(/\ \A r \in Requests : req[r] # "clear"
           /\ Len(capture_state'.packets) = Len(capture_state.packets) + 1)
            => (capture_state'.packets[Len(capture_state'.packets)].capture
                    = capture_state.capture)]_vars
    /\ [](\A i, j \in 1..Len(capture_state.packets) :
            (i < j) => (capture_state.packets[i].number < capture_state.packets[j].number))

\* start, stop, start: the list of the second capture holds its first packet and,
\* after it, the first packet of the first capture, whose start was still executing
C37_Stale ==
    /\ req[1] = "started" /\ stopreq[1] = "stopped" /\ 1 \in stop_called
    /\ req[2] = "started" /\ capture_state.capture = 2
    /\ thr_capture[1] = 1 /\ thr_capture[2] = 2
    /\ capture_state.packets = << [capture |-> 2, handler |-> 2, number |-> 1],
                                  [capture |-> 1, handler |-> 1, number |-> 1] >>

====
